---- MODULE Spec2Model ----
(***************************************************************************)
(* Streamlit Apps Portal and Data Quality app (sfc-gh-kburns/kb-public).    *)
(*                                                                         *)
(* Strings of the program are sequences of one-character strings, so that  *)
(* str.upper(), str.startswith(), str.replace() and the embedding of a     *)
(* value into a single-quoted SQL literal are computed, not assumed.       *)
(* Python None / SQL NULL is the value NULL.                               *)
(***************************************************************************)
EXTENDS Bags, FiniteSets, Integers, Naturals, Sequences, TLC

VARIABLES
    portal_apps,     \* rows of the table portal_apps
    app_access,      \* rows of the table app_access
    env,             \* account info and image library behaviour seen by the grid
    run,             \* what the last run of the Portal page computed and showed
    process_app,     \* the application the server process runs
    conn_cache,      \* st.cache_resource entry of get_snowflake_connection
    schema_cache,    \* st.cache_resource entry of initialize_database_schema
    conn_body_runs,  \* executions of the body of get_snowflake_connection since
                     \* the resource cache was last empty by a clear (or start)
    session_state,   \* st.session_state of every browser session
    widgets,         \* the buttons the last run of every session rendered
    nav,             \* what the last run of main did
    config_run,      \* what the last handler of the configuration page did
    access_seq,      \* next value of the IDENTITY column app_access.access_id
    fetch,           \* what the last fetch operation was given and returned
    timer,           \* a call through the timeout wrapper, step by step
    objects,         \* COMMENT of the tables, views and columns of the warehouse
    dq_cache,        \* st.cache_data entry of the object and column listings
    history,         \* rows of DATA_DESCRIPTION_HISTORY, in insertion order
    quality_results, \* rows of DATA_QUALITY_RESULTS, in insertion order
    dq_run,          \* what the last handler of the Data Quality app did
    selection        \* selector keys of st.session_state and selector widgets

db_vars == <<portal_apps, app_access, env, run>>
nav_vars == <<process_app, conn_cache, schema_cache, conn_body_runs, session_state, widgets, nav>>
config_vars == <<config_run, access_seq, fetch>>
dq_vars == <<timer, objects, dq_cache, history, quality_results, dq_run, selection>>
vars == <<portal_apps, app_access, env, run, process_app, conn_cache, schema_cache,
          conn_body_runs, session_state, widgets, nav, config_run, access_seq, fetch,
          timer, objects, dq_cache, history, quality_results, dq_run, selection>>

----------------------------------------------------------------------------
(* Bounds of the model *)

\* rows the role query returns in one page run
MaxRoleRows == 2
\* rows of app_access in an initial warehouse state
MaxGrants == 2

----------------------------------------------------------------------------
(* Strings *)

NULL == <<"NULL">>

LowerLetters == <<"a","b","c","d","e","f","g","h","i","j","k","l","m",
                  "n","o","p","q","r","s","t","u","v","w","x","y","z">>
UpperLetters == <<"A","B","C","D","E","F","G","H","I","J","K","L","M",
                  "N","O","P","Q","R","S","T","U","V","W","X","Y","Z">>

UpperChar(c) ==
    IF \E i \in 1..26 : LowerLetters[i] = c
    THEN UpperLetters[CHOOSE i \in 1..26 : LowerLetters[i] = c]
    ELSE c

\* str.upper()
Upper(s) == [i \in 1..Len(s) |-> UpperChar(s[i])]

\* Python truthiness of an optional string: None and '' are falsy
Truthy(v) == v # NULL /\ v # <<>>

QUOTE == "'"
COMMA == ","

PUBLIC == <<"P","U","B","L","I","C">>
UNKNOWN == <<"U","N","K","N","O","W","N">>
ACCOUNTADMIN == <<"A","C","C","O","U","N","T","A","D","M","I","N">>
STREAMLITPORTALADMINS ==
    <<"S","T","R","E","A","M","L","I","T","P","O","R","T","A","L",
      "A","D","M","I","N","S">>

----------------------------------------------------------------------------
(* Exceptions: a computation yields [exc |-> FALSE, val |-> v] or raises *)

Ok(v) == [exc |-> FALSE, val |-> v]
Raise == [exc |-> TRUE, val |-> NULL]

TryExcept(body, default) ==
    IF body.exc THEN [exc |-> FALSE, val |-> default, error |-> TRUE]
    ELSE [exc |-> FALSE, val |-> body.val, error |-> FALSE]

----------------------------------------------------------------------------
(* SQL text: values embedded in single-quoted literals, read back by the   *)
(* warehouse.  A literal ends at the first quote that is not doubled.      *)

RECURSIVE Join(_, _)
Join(strs, sep) ==
    IF strs = <<>> THEN <<>>
    ELSE IF Len(strs) = 1 THEN Head(strs)
    ELSE Head(strs) \o sep \o Join(Tail(strs), sep)

\* "'" + "','".join(values) + "'"
QuotedList(values) == <<QUOTE>> \o Join(values, <<QUOTE, COMMA, QUOTE>>) \o <<QUOTE>>

RECURSIVE Lex(_, _, _, _, _)
Lex(text, i, mode, cur, acc) ==
    IF i > Len(text)
    THEN [ok |-> (mode = "after"), lits |-> acc]
    ELSE CASE mode = "start" ->
                IF text[i] = QUOTE THEN Lex(text, i + 1, "in", <<>>, acc)
                ELSE [ok |-> FALSE, lits |-> acc]
           [] mode = "in" ->
                IF text[i] # QUOTE
                THEN Lex(text, i + 1, "in", Append(cur, text[i]), acc)
                ELSE IF i + 1 <= Len(text) /\ text[i + 1] = QUOTE
                     THEN Lex(text, i + 2, "in", Append(cur, QUOTE), acc)
                     ELSE Lex(text, i + 1, "after", <<>>, Append(acc, cur))
           [] mode = "after" ->
                IF text[i] = COMMA THEN Lex(text, i + 1, "start", <<>>, acc)
                ELSE [ok |-> FALSE, lits |-> acc]

\* the literals the warehouse reads in a comma-separated literal list
SqlLiterals(text) == Lex(text, 1, "start", <<>>, <<>>)

InSeq(x, s) == \E i \in 1..Len(s) : s[i] = x

----------------------------------------------------------------------------
(* StreamlitPortal.py *)

RECURSIVE AddRoles(_, _)
AddRoles(all_roles, user_roles) ==
    IF user_roles = <<>> THEN all_roles
    ELSE LET role == Head(user_roles)
         IN AddRoles(IF Truthy(role) /\ ~InSeq(role, all_roles)
                     THEN Append(all_roles, role) ELSE all_roles,
                     Tail(user_roles))

\* user_q, roles_q: outcomes of the two warehouse queries (Ok(rows) or Raise)
get_current_user_info(user_q, roles_q) ==
    LET body ==
          IF user_q.exc THEN Raise
          ELSE IF roles_q.exc THEN Raise
          ELSE IF user_q.val = <<>> THEN Raise   \* iloc[0] of an empty frame
          ELSE Ok([username |-> user_q.val[1],
                   roles |-> AddRoles(<<PUBLIC>>, roles_q.val)])
    IN TryExcept(body, [username |-> UNKNOWN, roles |-> <<PUBLIC>>])

is_portal_admin(user_info) ==
    LET admin_roles == {STREAMLITPORTALADMINS, ACCOUNTADMIN}
        user_roles_upper == {Upper(user_info.roles[i]) : i \in 1..Len(user_info.roles)}
    IN \E admin_role \in admin_roles : admin_role \in user_roles_upper

\* the columns get_accessible_apps selects
Selected(pa) ==
    [app_id |-> pa.app_id, app_name |-> pa.app_name, app_title |-> pa.app_title,
     image_path |-> pa.image_path, database_name |-> pa.database_name,
     schema_name |-> pa.schema_name]

\* WHERE clause of the access query, as the warehouse evaluates the query text
AccessMatch(aa, user_lit, role_lits) ==
    \/ aa.access_type = "USER" /\ Upper(aa.access_value) = Upper(user_lit)
    \/ aa.access_type = "ROLE" /\ InSeq(Upper(aa.access_value), role_lits)

\* FROM portal_apps pa INNER JOIN app_access aa ... WHERE ...: one row per pair
JoinedRows(apps, access, user_lit, role_lits) ==
    LET hits(pa) == {aa \in access : aa.app_id = pa.app_id
                                      /\ AccessMatch(aa, user_lit, role_lits)}
        rows == {pa \in apps : pa.is_active /\ hits(pa) # {}}
    IN [r \in {Selected(pa) : pa \in rows} |->
           Cardinality({<<pa, aa>> \in rows \X access :
                           Selected(pa) = r /\ aa \in hits(pa)})]

\* SELECT DISTINCT
Distinct(bag) == SetToBag(BagToSet(bag))

AccessQuery(apps, access, user_info) ==
    LET user_text == <<QUOTE>> \o user_info.username \o <<QUOTE>>
        roles_text == Upper(QuotedList(user_info.roles))
        user_lits == SqlLiterals(user_text)
        role_lits == SqlLiterals(roles_text)
    IN IF ~user_lits.ok \/ ~role_lits.ok \/ Len(user_lits.lits) # 1
       THEN Raise    \* SQL compilation error
       ELSE Ok(Distinct(JoinedRows(apps, access, user_lits.lits[1], role_lits.lits)))

\* available: FALSE when the warehouse call fails for a reason of its own
get_accessible_apps(apps, access, user_info, available) ==
    TryExcept(IF available THEN AccessQuery(apps, access, user_info) ELSE Raise,
              EmptyBag)

----------------------------------------------------------------------------
(* Images and the application grid *)

BASE64_PREFIX == <<"b","a","s","e","6","4",":">>

\* str.startswith
StartsWith(s, prefix) ==
    Len(s) >= Len(prefix) /\ SubSeq(s, 1, Len(prefix)) = prefix

\* str.replace(old, ''), every occurrence, left to right
RECURSIVE RemoveAll(_, _)
RemoveAll(s, old) ==
    IF s = <<>> THEN <<>>
    ELSE IF StartsWith(s, old) THEN RemoveAll(SubSeq(s, Len(old) + 1, Len(s)), old)
    ELSE <<Head(s)>> \o RemoveAll(Tail(s), old)

\* base64 text that decodes to bytes PIL can open
ValidImageData == {<<"i","V","B">>}

\* base64.b64decode + Image.open
DecodeImage(base64_data) ==
    IF base64_data \in ValidImageData THEN Ok(<<"Image">> \o base64_data) ELSE Raise

load_image_from_database(image_path) ==
    LET body ==
          IF ~Truthy(image_path) THEN Ok(NULL)
          ELSE IF StartsWith(image_path, BASE64_PREFIX)
               THEN TryExcept(DecodeImage(RemoveAll(image_path, BASE64_PREFIX)), NULL)
               ELSE Ok(NULL)
    IN TryExcept(body, NULL).val

PLACEHOLDER_NO_IMAGE == "https://via.placeholder.com/200x200?text=No+Image"
PLACEHOLDER_CUSTOM == "https://via.placeholder.com/200x200?text=Custom+Image"
PLACEHOLDER_ERROR == "https://via.placeholder.com/200x200?text=Image+Error"
EMBEDDED_PNG == "data:image/png;base64"

\* CardImage without the "if image_data" test and without the try/except
CardImage_unguarded(image_path, resize_raises) ==
    IF Truthy(image_path)
    THEN LET image_data == load_image_from_database(image_path)
         IN IF image_data # NULL /\ ~resize_raises THEN Ok(EMBEDDED_PNG) ELSE Raise
    ELSE Ok(PLACEHOLDER_NO_IMAGE)

\* resize_raises: the thumbnail/paste/save steps of a loaded image fail
CardImage(image_path, resize_raises) ==
    IF Truthy(image_path)
    THEN LET image_data == load_image_from_database(image_path)
             body == IF image_data # NULL
                     THEN (IF resize_raises THEN Raise ELSE Ok(EMBEDDED_PNG))
                     ELSE Ok(PLACEHOLDER_CUSTOM)
         IN Ok(TryExcept(body, PLACEHOLDER_ERROR).val)
    ELSE Ok(PLACEHOLDER_NO_IMAGE)

construct_streamlit_url(organization, account, database, schema, app_name) ==
    IF ~Truthy(organization) \/ ~Truthy(account) THEN NULL
    ELSE IF Truthy(app_name) /\ Truthy(database) /\ Truthy(schema)
         THEN <<organization, account, database, schema, app_name>>
         ELSE NULL

\* one card of the grid; raises when its image part raises
AppCard(app, app_info, resize_raises) ==
    LET image == CardImage(app.image_path, resize_raises)
        app_url == construct_streamlit_url(app_info[1], app_info[2],
                       app.database_name, app.schema_name, app.app_name)
    IN IF image.exc THEN Raise
       ELSE Ok([app_id |-> app.app_id, image_src |-> image.val,
                clickable |-> (app_url # NULL)])

\* the loop of display_app_grid over the rows: one card per row
GridCards(apps_df, app_info, resize_raises) ==
    LET rows == BagToSet(apps_df)
        card(app) == AppCard(app, app_info, resize_raises)
        good == {app \in rows : ~card(app).exc}
    IN [message |-> FALSE, app_info_fetched |-> TRUE,
        cards |-> [c \in {card(app).val : app \in good} |->
                     Cardinality({<<app, k>> \in good \X (1..BagCardinality(apps_df)) :
                                     card(app).val = c /\ k <= CopiesIn(app, apps_df)})],
        exc |-> (good # rows)]

\* display_app_grid asking for the account info before the test for no rows
display_app_grid_fetch_first(apps_df, app_info, resize_raises) ==
    IF apps_df = EmptyBag
    THEN [message |-> TRUE, app_info_fetched |-> TRUE, cards |-> EmptyBag,
          exc |-> FALSE]
    ELSE GridCards(apps_df, app_info, resize_raises)

\* app_info: <<organization, account>> as get_snowflake_app_info returns it
display_app_grid(apps_df, app_info, resize_raises) ==
    IF apps_df = EmptyBag
    THEN [message |-> TRUE, app_info_fetched |-> FALSE, cards |-> EmptyBag,
          exc |-> FALSE]
    ELSE GridCards(apps_df, app_info, resize_raises)

----------------------------------------------------------------------------
(* Connection, caches and navigation of the two applications *)

Apps == {"portal", "snowdq"}
Sessions == {1, 2}

NoSessionState ==
    [current_page |-> "unset", is_admin |-> "unset",
     active_tab |-> "unset", setup_complete |-> "unset"]

NoNav == [done |-> FALSE]

\* no server process is looked at: the state of the specifications of the pages
IdleNav ==
    /\ process_app = "portal"
    /\ conn_cache = "empty"
    /\ schema_cache = "empty"
    /\ conn_body_runs = 0
    /\ session_state = [s \in Sessions |-> NoSessionState]
    /\ widgets = [s \in Sessions |-> {}]
    /\ nav = NoNav

NoConfigRun == [op |-> "none"]
NoFetch == [done |-> FALSE]

\* IDENTITY(1,1): the next access_id is above every id handed out
NextIdentity(access) ==
    IF access = {} THEN 1
    ELSE 1 + CHOOSE m \in {a.access_id : a \in access} :
                 \A a \in access : a.access_id <= m

\* the configuration page is not used and no fetch is looked at
IdleConfig ==
    /\ config_run = NoConfigRun
    /\ access_seq = NextIdentity(app_access)
    /\ fetch = NoFetch

NoTimer == [pc |-> "idle"]
NoCache == [filled |-> FALSE]
NoDqRun == [op |-> "none"]
NoSelection == [page |-> "none"]

\* the Data Quality pages are not used
IdleDq ==
    /\ timer = NoTimer
    /\ objects = <<>>
    /\ dq_cache = NoCache
    /\ history = <<>>
    /\ quality_results = <<>>
    /\ dq_run = NoDqRun
    /\ selection = NoSelection

\* what the body of get_snowflake_connection finds: the ambient session
\* (get_active_session returns it, returns nothing, or raises), the credentials
\* file (missing, without the kb_demo entry, or with it) and the connector login
ConnEnvs ==
    [ambient : {"session"}, file : {"missing", "ok"}, connect_ok : {TRUE}]
    \cup [ambient : {"none", "raises"}, file : {"missing", "no_entry"}, connect_ok : {FALSE}]
    \cup [ambient : {"none", "raises"}, file : {"ok"}, connect_ok : BOOLEAN]

\* the part of both bodies after the ambient session was not obtained
LocalConnection(envr, queries_after_connect) ==
    IF envr.file = "missing" THEN [conn |-> "None", file_tried |-> TRUE, queried |-> FALSE]
    ELSE IF envr.file = "no_entry"
         THEN [conn |-> "None", file_tried |-> TRUE, queried |-> FALSE]
    ELSE IF ~envr.connect_ok
         THEN [conn |-> "None", file_tried |-> TRUE, queried |-> FALSE]
    ELSE [conn |-> "Connection", file_tried |-> TRUE, queried |-> queries_after_connect]

\* get_snowflake_connection reading the credentials file before it asks for
\* the ambient session
get_snowflake_connection_file_first(envr) ==
    IF envr.file = "ok" /\ envr.connect_ok THEN LocalConnection(envr, FALSE)
    ELSE IF envr.ambient = "session"
         THEN [conn |-> "Session", file_tried |-> TRUE, queried |-> FALSE]
         ELSE LocalConnection(envr, FALSE)

\* StreamlitPortal.get_snowflake_connection, the body
get_snowflake_connection(envr) ==
    IF envr.ambient = "session"
    THEN [conn |-> "Session", file_tried |-> FALSE, queried |-> FALSE]
    ELSE LocalConnection(envr, FALSE)

\* streamlit_app.get_snowflake_connection, the body: it also issues an
\* identification query on the connection it obtained
snowdq_get_snowflake_connection(envr) ==
    IF envr.ambient = "session"
    THEN [conn |-> "Session", file_tried |-> FALSE, queried |-> TRUE]
    ELSE LocalConnection(envr, TRUE)

NoBody == [ran |-> FALSE]

\* a cache that keeps no failed connection, so that the body runs again
CachedConnection_retry_none(which, cache, envr) ==
    IF cache # "empty" /\ cache # "None"
    THEN [conn |-> cache, cache |-> cache, body |-> NoBody, queried |-> FALSE]
    ELSE LET r == IF which = "portal" THEN get_snowflake_connection(envr)
                  ELSE snowdq_get_snowflake_connection(envr)
         IN [conn |-> r.conn, cache |-> r.conn, queried |-> r.queried,
             body |-> [ran |-> TRUE, envr |-> envr, conn |-> r.conn,
                       file_tried |-> r.file_tried]]

\* @st.cache_resource on get_snowflake_connection: the body runs when the
\* cache holds no entry, and its return value (None included) is kept
CachedConnection(which, cache, envr) ==
    IF cache # "empty"
    THEN [conn |-> cache, cache |-> cache, body |-> NoBody, queried |-> FALSE]
    ELSE LET r == IF which = "portal" THEN get_snowflake_connection(envr)
                  ELSE snowdq_get_snowflake_connection(envr)
         IN [conn |-> r.conn, cache |-> r.conn, queried |-> r.queried,
             body |-> [ran |-> TRUE, envr |-> envr, conn |-> r.conn,
                       file_tried |-> r.file_tried]]

\* @st.cache_resource on initialize_database_schema; schema_ok: the DDL succeeds
initialize_database_schema(cache, schema_ok) ==
    IF cache # "empty"
    THEN [val |-> (cache = "True"), cache |-> cache, queried |-> FALSE]
    ELSE [val |-> schema_ok, cache |-> IF schema_ok THEN "True" ELSE "False",
          queried |-> TRUE]

AccountAdmin == <<"A","c","c","o","u","n","t","A","d","m","i","n">>

\* outcomes of the user and role queries of a run of main: the roles of the
\* user can differ from one run to the next
NavUserQueries ==
    {<<Ok(<<<<"k","b">>>>), Ok(rows)>> :
        rows \in {<<>>, <<AccountAdmin>>, <<STREAMLITPORTALADMINS>>}}
    \cup {<<Raise, Raise>>}

NoEnv == [ambient |-> "unread", file |-> "unread", connect_ok |-> FALSE]

\* the run ended by st.stop() right after the connection or the schema failed
Stopped(s, c, schema_init, queried) ==
    [done |-> TRUE, s |-> s, stopped |-> TRUE, rerun |-> FALSE, conn |-> c.conn,
     body |-> c.body, schema_init |-> schema_init, queried |-> queried,
     admin |-> FALSE, page |-> "none", config_shown |-> FALSE, cleared |-> FALSE]

\* StreamlitPortal.main from the user info on: navigation and page content
PortalMainPages(s, click, c, runs, init, q) ==
    LET user_info == get_current_user_info(q[1], q[2]).val
        admin == is_portal_admin(user_info)
        page0 == IF session_state[s].current_page = "unset" THEN "Portal"
                 ELSE session_state[s].current_page
        target == IF click = "nav_portal" THEN "Portal"
                  ELSE IF admin /\ click = "nav_config" THEN "Portal Configuration"
                  ELSE IF click = "nav_docs" THEN "Documentation"
                  ELSE "none"
        rerun == target # "none"
        page == IF rerun THEN "none" ELSE page0
        config_shown == page = "Portal Configuration"
        cleared == config_shown /\ click = "refresh_cache"
        buttons == {"nav_portal", "nav_docs"}
                   \cup (IF admin THEN {"nav_config"} ELSE {})
                   \cup (IF config_shown THEN {"refresh_cache"} ELSE {})
    IN /\ nav' = [done |-> TRUE, s |-> s, stopped |-> FALSE, rerun |-> rerun,
                  conn |-> c.conn, body |-> c.body, schema_init |-> TRUE,
                  queried |-> TRUE, admin |-> admin, page |-> page,
                  config_shown |-> config_shown, cleared |-> cleared]
       /\ session_state' = [session_state EXCEPT
              ![s].is_admin = IF admin THEN "True" ELSE "False",
              ![s].current_page = IF rerun THEN target ELSE page0]
       /\ widgets' = [widgets EXCEPT ![s] = IF rerun THEN {} ELSE buttons]
       /\ conn_cache' = IF cleared THEN "empty" ELSE c.cache
       /\ schema_cache' = IF cleared THEN "empty" ELSE init.cache
       /\ conn_body_runs' = IF cleared THEN 0 ELSE runs

\* StreamlitPortal.main, one run of the script for session s.
\* click: the button of the previous run the user pressed ("none": a plain rerun)
PortalMain(s, click, envr, schema_ok, q) ==
    LET c == CachedConnection("portal", conn_cache, envr)
        runs == conn_body_runs + (IF c.body.ran THEN 1 ELSE 0)
        init == initialize_database_schema(schema_cache, schema_ok)
    IN
    /\ process_app = "portal"
    /\ UNCHANGED <<db_vars, process_app, config_vars, dq_vars>>
    /\ IF c.conn = "None"
       THEN /\ nav' = Stopped(s, c, FALSE, c.queried)
            /\ conn_cache' = c.cache
            /\ conn_body_runs' = runs
            /\ widgets' = [widgets EXCEPT ![s] = {}]
            /\ UNCHANGED <<schema_cache, session_state>>
       ELSE IF ~init.val
            THEN /\ nav' = Stopped(s, c, TRUE, TRUE)
                 /\ conn_cache' = c.cache
                 /\ schema_cache' = init.cache
                 /\ conn_body_runs' = runs
                 /\ widgets' = [widgets EXCEPT ![s] = {}]
                 /\ UNCHANGED session_state
            ELSE PortalMainPages(s, click, c, runs, init, q)

PortalMainRun ==
    \E s \in Sessions :
      \E click \in widgets[s] \cup {"none"},
         envr \in (IF conn_cache = "empty" THEN ConnEnvs ELSE {NoEnv}),
         schema_ok \in (IF schema_cache = "empty" THEN BOOLEAN ELSE {TRUE}),
         q \in NavUserQueries :
          PortalMain(s, click, envr, schema_ok, q)

TabKeys == {"Home", "Data Descriptions", "Data Quality", "Data Contacts", "History"}

\* the tab a navigation or quick-action button of streamlit_app.main selects
TabOfButton(click) ==
    CASE click = "sidebar_desc" -> "Data Descriptions"
      [] click = "sidebar_quality" -> "Data Quality"
      [] click = "sidebar_contacts" -> "Data Contacts"
      [] click = "sidebar_history" -> "History"
      [] click = "nav_home" -> "Home"
      [] click = "nav_desc" -> "Data Descriptions"
      [] click = "nav_quality" -> "Data Quality"
      [] click = "nav_contacts" -> "Data Contacts"
      [] click = "nav_history" -> "History"
      [] OTHER -> "none"

SnowdqButtons ==
    {"sidebar_desc", "sidebar_quality", "sidebar_contacts", "sidebar_history",
     "nav_home", "nav_desc", "nav_quality", "nav_contacts", "nav_history"}

\* a dispatch that shows the home page above every other page
Dispatch_home_always(active_tab) ==
    {"Home"} \cup (IF active_tab \in TabKeys THEN {active_tab} ELSE {})

\* the if / elif chain of streamlit_app.main: the pages whose function is called
Dispatch(active_tab) ==
    IF active_tab = "Home" THEN {"Home"}
    ELSE IF active_tab = "Data Descriptions" THEN {"Data Descriptions"}
    ELSE IF active_tab = "Data Quality" THEN {"Data Quality"}
    ELSE IF active_tab = "Data Contacts" THEN {"Data Contacts"}
    ELSE IF active_tab = "History" THEN {"History"}
    ELSE {}

\* streamlit_app.main from the sidebar on: navigation and page content
SnowdqMainPages(s, click, c, runs, tab0, first, setup, objects_listed) ==
    LET target == TabOfButton(click)
        rerun_nav == target # "none"
        tab == IF rerun_nav THEN target
               ELSE IF tab0 \in TabKeys THEN tab0 ELSE "Home"
        refresh_shown == ~rerun_nav /\ tab = "Data Descriptions" /\ objects_listed
        cleared == refresh_shown /\ click = "refresh_tables_data"
        rerun == rerun_nav \/ cleared
        buttons == SnowdqButtons
                   \cup (IF refresh_shown THEN {"refresh_tables_data"} ELSE {})
    IN /\ nav' = [done |-> TRUE, s |-> s, stopped |-> FALSE, rerun |-> rerun,
                  conn |-> c.conn, body |-> c.body, schema_init |-> first,
                  queried |-> TRUE, admin |-> FALSE,
                  page |-> IF rerun_nav THEN "none" ELSE tab,
                  config_shown |-> FALSE, cleared |-> cleared,
                  target |-> target,
                  pages |-> IF rerun_nav THEN {} ELSE Dispatch(tab),
                  fresh |-> session_state[s].active_tab = "unset",
                  setup |-> setup]
       /\ session_state' = [session_state EXCEPT
              ![s].active_tab = tab, ![s].setup_complete = "True"]
       /\ widgets' = [widgets EXCEPT ![s] = IF rerun THEN {} ELSE buttons]
       /\ conn_cache' = IF cleared THEN "empty" ELSE c.cache
       /\ conn_body_runs' = IF cleared THEN 0 ELSE runs

\* a gate that lets a failed setup pass
SetupSuccess_ignored(first, setup_ok) == TRUE

\* setup_success of streamlit_app.main: setup_database_objects runs while
\* setup_complete is not in the session state
SetupSuccess(first, setup_ok) == IF first THEN setup_ok ELSE TRUE

\* streamlit_app.main, one run of the script for session s.
\* setup_ok: setup_database_objects returns True; objects_listed: the Data
\* Descriptions page lists objects, so that it shows its Refresh Data button
SnowdqMain(s, click, envr, setup_ok, objects_listed) ==
    LET c == CachedConnection("snowdq", conn_cache, envr)
        runs == conn_body_runs + (IF c.body.ran THEN 1 ELSE 0)
        tab0 == IF session_state[s].active_tab = "unset" THEN "Home"
                ELSE session_state[s].active_tab
        first == session_state[s].setup_complete = "unset"
        setup_success == SetupSuccess(first, setup_ok)
        setup == IF c.conn = "None" \/ ~first THEN "skipped"
                 ELSE IF setup_ok THEN "True" ELSE "False"
    IN
    /\ process_app = "snowdq"
    /\ UNCHANGED <<db_vars, process_app, schema_cache, config_vars, dq_vars>>
    /\ IF c.conn = "None" \/ ~setup_success
       THEN /\ nav' = [target |-> TabOfButton(click), pages |-> {},
                        fresh |-> session_state[s].active_tab = "unset",
                        setup |-> setup]
                       @@ Stopped(s, c, c.conn # "None", c.queried \/ c.conn # "None")
            /\ conn_cache' = c.cache
            /\ conn_body_runs' = runs
            /\ widgets' = [widgets EXCEPT ![s] = {}]
            /\ session_state' = [session_state EXCEPT ![s].active_tab = tab0]
       ELSE SnowdqMainPages(s, click, c, runs, tab0, first, setup, objects_listed)

SnowdqMainRun ==
    \E s \in Sessions :
      \E click \in widgets[s] \cup {"none"},
         envr \in (IF conn_cache = "empty" THEN ConnEnvs ELSE {NoEnv}),
         setup_ok \in (IF session_state[s].setup_complete = "unset"
                       THEN BOOLEAN ELSE {TRUE}),
         objects_listed \in BOOLEAN :
          SnowdqMain(s, click, envr, setup_ok, objects_listed)

\* a server process of one of the two applications, before its first run
InitNav ==
    /\ process_app \in Apps
    /\ conn_cache = "empty"
    /\ schema_cache = "empty"
    /\ conn_body_runs = 0
    /\ session_state = [s \in Sessions |-> NoSessionState]
    /\ widgets = [s \in Sessions |-> {}]
    /\ nav = NoNav
    /\ portal_apps = {}
    /\ app_access = {}
    /\ env = [app_info |-> <<NULL, NULL>>, resize_raises |-> FALSE]
    /\ run = [done |-> FALSE]
    /\ IdleConfig
    /\ IdleDq

NextNav == PortalMainRun \/ SnowdqMainRun

SpecNav == InitNav /\ [][NextNav]_vars

----------------------------------------------------------------------------
(* Warehouse contents and users of the portal *)

APP1 == <<"A","P","P","1">>
APP2 == <<"A","P","P","2">>
AppIds == {APP1, APP2}

NoRun == [done |-> FALSE]

AppRow(id, image_path, is_active) ==
    [app_id |-> id, app_name |-> id, app_title |-> id, image_path |-> image_path,
     database_name |-> IF id = APP1 THEN <<"D","B">> ELSE NULL,
     schema_name |-> IF id = APP1 THEN <<"S","C">> ELSE NULL,
     is_active |-> is_active]

\* grants an administrator can have entered; the UI stores names upper-cased,
\* rows inserted by hand keep their case
GrantValues == {<<"USER", <<"K","B">>>>, <<"ROLE", <<"D","e","v">>>>, <<"ROLE", PUBLIC>>}
GrantPool == AppIds \X GrantValues

\* app_access.access_id is an IDENTITY column: every row has its own id
GrantId(g) ==
    (IF g[1] = APP1 THEN 0 ELSE 3)
    + (CASE g[2] = <<"USER", <<"K","B">>>> -> 1
         [] g[2] = <<"ROLE", <<"D","e","v">>>> -> 2
         [] OTHER -> 3)

AccessRow(g) ==
    [access_id |-> GrantId(g), app_id |-> g[1], access_type |-> g[2][1],
     access_value |-> g[2][2]]

\* CURRENT_USER() of the visiting user
UserNames == {<<"k","b">>, <<"J","O">>, <<"O","'","B">>}

\* values of the ROLE column of the role query
RoleValues == {NULL, <<>>, PUBLIC, <<"d","e","v">>, <<"Q","'","A">>}

\* SELECT DISTINCT ROLE: rows without repetition
RoleRows ==
    {rows \in UNION {[1..n -> RoleValues] : n \in 0..MaxRoleRows} :
        \A i, j \in 1..Len(rows) : i # j => rows[i] # rows[j]}

ImagePaths ==
    {NULL, <<>>, <<"x",".","p","n","g">>,
     BASE64_PREFIX \o <<"i","V","B">>,
     BASE64_PREFIX \o <<"?">>,
     BASE64_PREFIX}

AppInfos == {<<NULL, NULL>>, <<<<"O","R","G">>, <<"A","C","C">>>>}

----------------------------------------------------------------------------
(* The Portal page of main: user info, accessible apps, grid *)

PortalPage(user_q, roles_q, available) ==
    LET user_info == get_current_user_info(user_q, roles_q)
        apps == get_accessible_apps(portal_apps, app_access, user_info.val, available)
        grid == display_app_grid(apps.val, env.app_info, env.resize_raises)
    IN /\ ~run.done
       /\ run' = [done |-> TRUE,
                  user_info |-> user_info.val, user_error |-> user_info.error,
                  available |-> available,
                  apps_df |-> apps.val, apps_error |-> apps.error,
                  grid |-> grid,
                  propagated |-> user_info.exc \/ apps.exc \/ grid.exc]
       /\ UNCHANGED <<portal_apps, app_access, env>>
       /\ UNCHANGED <<nav_vars, config_vars, dq_vars>>

\* outcomes of the user query and of the role query of one run; the role
\* query is not reached when the user query raises
UserQueries ==
    {<<Ok(<<name>>), Ok(rows)>> : name \in UserNames, rows \in RoleRows}
    \cup {<<Ok(<<name>>), Raise>> : name \in UserNames}
    \cup {<<Raise, Raise>>}

PortalRun ==
    \E q \in UserQueries, available \in BOOLEAN : PortalPage(q[1], q[2], available)

\* warehouse states for the access rules: images are left unset
InitAccess ==
    /\ \E present \in SUBSET AppIds, active \in SUBSET AppIds :
          /\ active \subseteq present
          /\ portal_apps = {AppRow(id, NULL, id \in active) : id \in present}
    /\ \E grants \in SUBSET GrantPool :
          /\ Cardinality(grants) <= MaxGrants
          /\ app_access = {AccessRow(g) : g \in grants}
    /\ env = [app_info |-> <<<<"O","R","G">>, <<"A","C","C">>>>, resize_raises |-> FALSE]
    /\ run = NoRun
    /\ IdleNav
    /\ IdleConfig
    /\ IdleDq

SpecAccess == InitAccess /\ [][PortalRun]_vars

\* warehouse states for the cards: both applications visible to everyone
InitImages ==
    /\ \E img \in [AppIds -> ImagePaths] :
          portal_apps = {AppRow(id, img[id], TRUE) : id \in AppIds}
    /\ app_access = {AccessRow(<<id, <<"ROLE", PUBLIC>>>>) : id \in AppIds}
    /\ env \in [app_info : AppInfos, resize_raises : BOOLEAN]
    /\ run = NoRun
    /\ IdleNav
    /\ IdleConfig
    /\ IdleDq

SpecImages == InitImages /\ [][PortalRun]_vars

----------------------------------------------------------------------------
(* portal_config.py: Manage Apps and Manage Access of one administrator *)

\* highest access_id the model hands out
MaxAccessId == 2

\* SHOW STREAMLITS IN ACCOUNT, in the order the rows are listed
AllApps == <<APP1, APP2>>
\* names the user and role selectboxes offer (get_all_users, get_all_roles)
AllUsers == {<<"k","b">>}
AllRoles == {PUBLIC}

\* manage_applications: the combined view of the account's applications
manage_applications(apps) ==
    [i \in 1..Len(AllApps) |->
        LET in_portal == \E p \in apps : p.app_name = AllApps[i]
        IN [app_name |-> AllApps[i],
            in_portal |-> in_portal,
            active |-> IF in_portal
                       THEN (CHOOSE p \in apps : p.app_name = AllApps[i]).is_active
                       ELSE FALSE]]

\* what st.data_editor can return for the combined view: the two checkboxes
\* of every row are editable, app_name is disabled
EditedFrames(combined_df) ==
    {e \in [1..Len(combined_df) -> [app_name : AppIds, in_portal : BOOLEAN, active : BOOLEAN]] :
        \A i \in 1..Len(combined_df) : e[i].app_name = combined_df[i].app_name}

\* the statements of one row with the two deletes in the other order
RowStatements_app_first(original_row, row) ==
    IF ~row.in_portal /\ original_row.in_portal
    THEN <<[op |-> "DELETE_APP", app_id |-> row.app_name, is_active |-> FALSE],
           [op |-> "DELETE_ACCESS", app_id |-> row.app_name, is_active |-> FALSE]>>
    ELSE IF row.in_portal /\ ~original_row.in_portal
    THEN <<[op |-> "INSERT_APP", app_id |-> row.app_name, is_active |-> row.active]>>
    ELSE IF row.in_portal /\ original_row.in_portal /\ row.active # original_row.active
    THEN <<[op |-> "UPDATE_APP", app_id |-> row.app_name, is_active |-> row.active]>>
    ELSE <<>>

\* save_application_changes, the body of the loop: the statements it issues
\* for one row, in order
RowStatements(original_row, row) ==
    IF row.in_portal /\ ~original_row.in_portal
    THEN <<[op |-> "INSERT_APP", app_id |-> row.app_name, is_active |-> row.active]>>
    ELSE IF ~row.in_portal /\ original_row.in_portal
    THEN <<[op |-> "DELETE_ACCESS", app_id |-> row.app_name, is_active |-> FALSE],
           [op |-> "DELETE_APP", app_id |-> row.app_name, is_active |-> FALSE]>>
    ELSE IF row.in_portal /\ original_row.in_portal /\ row.active # original_row.active
    THEN <<[op |-> "UPDATE_APP", app_id |-> row.app_name, is_active |-> row.active]>>
    ELSE <<>>

RECURSIVE SaveStatements(_, _, _)
\* for index, row in edited_df.iterrows()
SaveStatements(original_df, edited_df, i) ==
    IF i > Len(edited_df) THEN <<>>
    ELSE RowStatements(original_df[i], edited_df[i])
         \o SaveStatements(original_df, edited_df, i + 1)

\* one statement on the two tables; rows: the rows it inserted, changed or deleted
ExecStmt(stmt, db) ==
    CASE stmt.op = "INSERT_APP" ->
           [apps |-> db.apps \cup {AppRow(stmt.app_id, NULL, stmt.is_active)},
            access |-> db.access, rows |-> 1]
      [] stmt.op = "DELETE_ACCESS" ->
           [apps |-> db.apps,
            access |-> {a \in db.access : a.app_id # stmt.app_id},
            rows |-> Cardinality({a \in db.access : a.app_id = stmt.app_id})]
      [] stmt.op = "DELETE_APP" ->
           [apps |-> {q \in db.apps : q.app_id # stmt.app_id},
            access |-> db.access,
            rows |-> Cardinality({q \in db.apps : q.app_id = stmt.app_id})]
      [] stmt.op = "UPDATE_APP" ->
           [apps |-> {IF q.app_id = stmt.app_id
                      THEN [q EXCEPT !.is_active = stmt.is_active] ELSE q : q \in db.apps},
            access |-> db.access,
            rows |-> Cardinality({q \in db.apps : q.app_id = stmt.app_id})]

RECURSIVE ExecAll(_, _, _, _, _)
\* the statements in order until one raises (fail_at: its position, 0: none)
ExecAll(stmts, i, fail_at, db, log) ==
    IF i > Len(stmts) THEN [apps |-> db.apps, access |-> db.access, log |-> log, raised |-> FALSE]
    ELSE IF i = fail_at
    THEN [apps |-> db.apps, access |-> db.access, log |-> log, raised |-> TRUE]
    ELSE LET r == ExecStmt(stmts[i], db)
         IN ExecAll(stmts, i + 1, fail_at, [apps |-> r.apps, access |-> r.access],
                    Append(log, [op |-> stmts[i].op, app_id |-> stmts[i].app_id,
                                 rows |-> r.rows]))

\* save_application_changes(conn, original_df, edited_df)
save_application_changes(apps, access, original_df, edited_df, fail_at) ==
    LET stmts == SaveStatements(original_df, edited_df, 1)
        r == ExecAll(stmts, 1, fail_at, [apps |-> apps, access |-> access], <<>>)
    IN [apps |-> r.apps, access |-> r.access, log |-> r.log, raised |-> r.raised,
        changes_saved |-> ~r.raised /\ stmts # <<>>]

\* manage_applications with the Save Changes button pressed
SaveChanges ==
    LET combined_df == manage_applications(portal_apps)
    IN \E edited_df \in EditedFrames(combined_df) :
         \E fail_at \in 0..Len(SaveStatements(combined_df, edited_df, 1)) :
           LET r == save_application_changes(portal_apps, app_access, combined_df,
                                             edited_df, fail_at)
           IN /\ edited_df # combined_df
              /\ portal_apps' = r.apps
              /\ app_access' = r.access
              /\ config_run' = [op |-> "save",
                                removed |-> {edited_df[i].app_name : i \in
                                    {j \in 1..Len(edited_df) :
                                       combined_df[j].in_portal /\ ~edited_df[j].in_portal}},
                                log |-> r.log, raised |-> r.raised,
                                changes_saved |-> r.changes_saved]
              /\ UNCHANGED <<env, run, nav_vars, access_seq, fetch, dq_vars>>

\* portal_config.get_app_access: the rows Manage Access lists for an app
get_app_access(access, app_id, available) ==
    TryExcept(IF available
              THEN Ok(SetToBag({[access_id |-> a.access_id, access_type |-> a.access_type,
                                 access_value |-> a.access_value] :
                                a \in {b \in access : b.app_id = app_id}}))
              ELSE Raise,
              EmptyBag)

\* add_access_permission(conn, app_id, access_type, access_value): a plain
\* INSERT, the new row takes the next access_id
add_access_permission(access, seq, app_id, access_type, access_value, fails) ==
    IF fails
    THEN [access |-> access, seq |-> seq, raised |-> TRUE, log |-> <<>>]
    ELSE [access |-> access \cup {[access_id |-> seq, app_id |-> app_id,
                                   access_type |-> access_type,
                                   access_value |-> access_value]},
          seq |-> seq + 1, raised |-> FALSE,
          log |-> <<[op |-> "INSERT_ACCESS", app_id |-> app_id, rows |-> 1]>>]

\* delete_access_permission(conn, access_id)
delete_access_permission(access, access_id, fails) ==
    IF fails THEN [access |-> access, raised |-> TRUE]
    ELSE [access |-> {a \in access : a.access_id # access_id}, raised |-> FALSE]

\* the selectbox of manage_access_permissions: an application of the portal,
\* chosen by its title; the page works on the first row with that title
SelectedApps(apps) ==
    {p.app_id : p \in apps}

\* manage_access_permissions with Add User Access or Add Role Access pressed:
\* the selected name is stored upper-cased
AddAccess ==
    \E app_id \in SelectedApps(portal_apps) :
      \E choice \in ({"USER"} \X AllUsers) \cup ({"ROLE"} \X AllRoles), fails \in BOOLEAN :
        LET r == add_access_permission(app_access, access_seq, app_id, choice[1],
                                       Upper(choice[2]), fails)
        IN /\ access_seq <= MaxAccessId
           /\ app_access' = r.access
           /\ access_seq' = r.seq
           /\ config_run' = [op |-> "add", app_id |-> app_id, access_type |-> choice[1],
                             access_value |-> Upper(choice[2]), log |-> r.log,
                             raised |-> r.raised]
           /\ UNCHANGED <<portal_apps, env, run, nav_vars, fetch, dq_vars>>

\* manage_access_permissions with the delete button of a listed row pressed
DeleteAccess ==
    \E app_id \in SelectedApps(portal_apps), fails \in BOOLEAN :
      \E row \in BagToSet(get_app_access(app_access, app_id, TRUE).val) :
        LET r == delete_access_permission(app_access, row.access_id, fails)
        IN /\ app_access' = r.access
           /\ config_run' = [op |-> "delete", app_id |-> app_id,
                             access_id |-> row.access_id, raised |-> r.raised]
           /\ UNCHANGED <<portal_apps, env, run, nav_vars, access_seq, fetch, dq_vars>>

\* a portal whose applications were added through Manage Apps (app_id =
\* app_name) and that has no access row yet
InitAdmin ==
    /\ \E present \in SUBSET AppIds, active \in SUBSET AppIds :
          /\ active \subseteq present
          /\ portal_apps = {AppRow(id, NULL, id \in active) : id \in present}
    /\ app_access = {}
    /\ env = [app_info |-> <<NULL, NULL>>, resize_raises |-> FALSE]
    /\ run = NoRun
    /\ IdleNav
    /\ IdleConfig
    /\ IdleDq

NextAdmin == SaveChanges \/ AddAccess \/ DeleteAccess

SpecAdmin == InitAdmin /\ [][NextAdmin]_vars

----------------------------------------------------------------------------
(* The fetch operations of both applications and what they return when the *)
(* warehouse call raises.  A query outcome is Ok(rows) or Raise.           *)

\* portal_config.get_portal_apps: SELECT * FROM portal_apps
get_portal_apps(apps, available) ==
    TryExcept(IF available THEN Ok(SetToBag(apps)) ELSE Raise, EmptyBag)

SNOWFLAKE == <<"S","N","O","W","F","L","A","K","E">>
INFORMATION_SCHEMA == <<"I","N","F","O","R","M","A","T","I","O","N","_","S","C","H","E","M","A">>

NotSystemDatabase(db) == db \notin {SNOWFLAKE, INFORMATION_SCHEMA}

\* get_databases without its try block
get_databases_unguarded(databases_q) ==
    IF databases_q.exc THEN [exc |-> TRUE, val |-> NULL, error |-> FALSE]
    ELSE [exc |-> FALSE, val |-> SelectSeq(databases_q.val, NotSystemDatabase),
          error |-> FALSE]

\* streamlit_app.get_databases
get_databases(databases_q) ==
    TryExcept(IF databases_q.exc THEN Raise
              ELSE Ok(SelectSeq(databases_q.val, NotSystemDatabase)),
              <<>>)

\* the comment of a column as get_columns keeps it
ColumnComment(comment) ==
    IF comment \in {NULL, <<>>, <<"n","u","l","l">>, <<"N","U","L","L">>}
    THEN NULL ELSE comment

\* str(comment).strip() is not empty
NotBlank(comment) == \E i \in 1..Len(comment) : comment[i] # " "

ColumnData(row) ==
    LET comment == ColumnComment(row.comment)
    IN [COLUMN_NAME |-> row.name, DATA_TYPE |-> row.type,
        CURRENT_DESCRIPTION |-> comment,
        HAS_DESCRIPTION |-> IF Truthy(comment) /\ NotBlank(comment) THEN "Yes" ELSE "No"]

RECURSIVE ColumnsData(_, _)
\* the loop over the rows of a column query; named_only: rows without a
\* column name are skipped (the DESC TABLE branch)
ColumnsData(rows, named_only) ==
    IF rows = <<>> THEN <<>>
    ELSE (IF named_only /\ ~Truthy(Head(rows).name) THEN <<>>
          ELSE <<ColumnData(Head(rows))>>)
         \o ColumnsData(Tail(rows), named_only)

\* streamlit_app.get_columns: INFORMATION_SCHEMA.COLUMNS first, DESC TABLE
\* when that raises, the empty frame with the four columns otherwise
get_columns(info_q, desc_q) ==
    IF ~info_q.exc
    THEN [exc |-> FALSE, val |-> ColumnsData(info_q.val, FALSE), error |-> FALSE]
    ELSE IF ~desc_q.exc
         THEN [exc |-> FALSE, val |-> ColumnsData(desc_q.val, TRUE), error |-> TRUE]
         ELSE [exc |-> FALSE, val |-> <<>>, error |-> TRUE]

\* the option "None" of the contact selectboxes
NONE_OPTION == <<"N","o","n","e">>

\* f'{db_name}.{schema_name}."{contact_name}"'
ContactPath(db_name, schema_name, contact_name) ==
    db_name \o <<".">> \o schema_name \o <<".", "\"">> \o contact_name \o <<"\"">>

RECURSIVE ContactOptions(_)
ContactOptions(rows) ==
    IF rows = <<>> THEN <<>>
    ELSE (IF Truthy(Head(rows).name) /\ Truthy(Head(rows).database_name)
             /\ Truthy(Head(rows).schema_name)
          THEN <<ContactPath(Head(rows).database_name, Head(rows).schema_name,
                             Head(rows).name)>>
          ELSE <<>>)
         \o ContactOptions(Tail(rows))

\* streamlit_app.get_all_contacts: SHOW CONTACTS IN ACCOUNT
get_all_contacts(contacts_q) ==
    TryExcept(IF contacts_q.exc THEN Raise
              ELSE Ok(<<NONE_OPTION>> \o ContactOptions(contacts_q.val)),
              <<NONE_OPTION>>)

ContactPurposes == {"STEWARD", "SUPPORT", "ACCESS_APPROVAL"}

RECURSIVE TableContacts(_, _)
\* the loop of get_table_contacts: a later row of a purpose replaces an earlier
TableContacts(rows, contacts) ==
    IF rows = <<>> THEN contacts
    ELSE LET row == Head(rows)
         IN TableContacts(Tail(rows),
               IF row.CONTACT_PURPOSE \in ContactPurposes /\ Truthy(row.CONTACT_NAME)
               THEN [contacts EXCEPT ![row.CONTACT_PURPOSE] =
                        ContactPath(row.CONTACT_DATABASE, row.CONTACT_SCHEMA,
                                    row.CONTACT_NAME)]
               ELSE contacts)

\* streamlit_app.get_table_contacts: ACCOUNT_USAGE.CONTACT_REFERENCES
get_table_contacts(references_q) ==
    TryExcept(IF references_q.exc THEN Raise
              ELSE Ok(TableContacts(references_q.val, [c \in ContactPurposes |-> NULL])),
              [c \in ContactPurposes |-> NULL])

\* what the queries of the fetch operations can return
DB1 == <<"D","B">>
DatabaseLists == {<<>>, <<DB1>>, <<DB1, SNOWFLAKE>>, <<INFORMATION_SCHEMA, DB1>>}

ColumnRowLists ==
    {<<>>,
     <<[name |-> <<"I","D">>, type |-> <<"N","U","M">>, comment |-> NULL]>>,
     <<[name |-> <<"I","D">>, type |-> <<"N","U","M">>, comment |-> <<"k","e","y">>],
       [name |-> <<>>, type |-> <<"N","U","M">>, comment |-> <<"n","u","l","l">>]>>,
     <<[name |-> <<>>, type |-> <<>>, comment |-> <<" ">>]>>}

ContactRowLists ==
    {<<>>,
     <<[name |-> <<"C","1">>, database_name |-> DB1, schema_name |-> <<"S","C">>]>>,
     <<[name |-> <<"C","1">>, database_name |-> NULL, schema_name |-> <<"S","C">>]>>}

ReferenceRowLists ==
    {<<>>,
     <<[CONTACT_PURPOSE |-> "STEWARD", CONTACT_NAME |-> <<"C","1">>,
        CONTACT_DATABASE |-> DB1, CONTACT_SCHEMA |-> <<"S","C">>]>>,
     <<[CONTACT_PURPOSE |-> "SUPPORT", CONTACT_NAME |-> <<"C","1">>,
        CONTACT_DATABASE |-> DB1, CONTACT_SCHEMA |-> <<"S","C">>],
       [CONTACT_PURPOSE |-> "OTHER", CONTACT_NAME |-> <<"C","2">>,
        CONTACT_DATABASE |-> DB1, CONTACT_SCHEMA |-> <<"S","C">>]>>}

Outcomes(values) == {Ok(v) : v \in values} \cup {Raise}

\* one call of a fetch operation: the call, whether its warehouse call raised,
\* the kind of value the operation returns, and what came back
Fetched(op, raised, fallback_raised, kind, r) ==
    [done |-> TRUE, op |-> op, raised |-> raised,
     fallback_raised |-> fallback_raised, kind |-> kind,
     val |-> r.val, exc |-> r.exc]

fetch_unchanged == <<db_vars, nav_vars, config_run, access_seq, dq_vars>>

FetchAccessibleApps ==
    /\ \E q \in UserQueries, available \in BOOLEAN :
         LET user_info == get_current_user_info(q[1], q[2]).val
         IN fetch' = Fetched("get_accessible_apps",
                  ~available \/ AccessQuery(portal_apps, app_access, user_info).exc,
                  FALSE, "frame",
                  get_accessible_apps(portal_apps, app_access, user_info, available))
    /\ UNCHANGED fetch_unchanged

FetchCurrentUserInfo ==
    /\ \E q \in UserQueries :
         fetch' = Fetched("get_current_user_info", q[1].exc \/ q[2].exc, FALSE,
                          "user_info", get_current_user_info(q[1], q[2]))
    /\ UNCHANGED fetch_unchanged

FetchPortalApps ==
    /\ \E available \in BOOLEAN :
         fetch' = Fetched("get_portal_apps", ~available, FALSE, "frame",
                          get_portal_apps(portal_apps, available))
    /\ UNCHANGED fetch_unchanged

FetchAppAccess ==
    /\ \E app_id \in AppIds, available \in BOOLEAN :
         fetch' = Fetched("get_app_access", ~available, FALSE, "frame",
                          get_app_access(app_access, app_id, available))
    /\ UNCHANGED fetch_unchanged

FetchDatabases ==
    /\ \E q \in Outcomes(DatabaseLists) :
         fetch' = Fetched("get_databases", q.exc, FALSE, "list", get_databases(q))
    /\ UNCHANGED fetch_unchanged

FetchColumns ==
    /\ \E info_q \in Outcomes(ColumnRowLists) :
         \E desc_q \in (IF info_q.exc THEN Outcomes(ColumnRowLists) ELSE {Raise}) :
            fetch' = Fetched("get_columns", info_q.exc, info_q.exc /\ desc_q.exc,
                             "frame", get_columns(info_q, desc_q))
    /\ UNCHANGED fetch_unchanged

FetchAllContacts ==
    /\ \E q \in Outcomes(ContactRowLists) :
         fetch' = Fetched("get_all_contacts", q.exc, FALSE, "list", get_all_contacts(q))
    /\ UNCHANGED fetch_unchanged

FetchTableContacts ==
    /\ \E q \in Outcomes(ReferenceRowLists) :
         fetch' = Fetched("get_table_contacts", q.exc, FALSE, "dict",
                          get_table_contacts(q))
    /\ UNCHANGED fetch_unchanged

\* a portal with or without applications and grants, before any fetch
InitFetch ==
    /\ \E present \in SUBSET AppIds :
          portal_apps = {AppRow(id, NULL, TRUE) : id \in present}
    /\ \E grants \in SUBSET {<<APP1, <<"ROLE", PUBLIC>>>>, <<APP1, <<"USER", <<"K","B">>>>>>} :
          /\ \A g \in grants : \E q \in portal_apps : q.app_id = g[1]
          /\ app_access = {AccessRow(g) : g \in grants}
    /\ env = [app_info |-> <<NULL, NULL>>, resize_raises |-> FALSE]
    /\ run = NoRun
    /\ IdleNav
    /\ IdleConfig
    /\ IdleDq

NextFetch ==
    \/ FetchAccessibleApps
    \/ FetchCurrentUserInfo
    \/ FetchPortalApps
    \/ FetchAppAccess
    \/ FetchDatabases
    \/ FetchColumns
    \/ FetchAllContacts
    \/ FetchTableContacts

SpecFetch == InitFetch /\ [][NextFetch]_vars

----------------------------------------------------------------------------
(* Claims on the Portal page *)

\* the grant rule of the documentation: a USER grant for the username or a
\* ROLE grant for one of the user's roles, ignoring case
Granted(aa, user_info) ==
    \/ aa.access_type = "USER" /\ Upper(aa.access_value) = Upper(user_info.username)
    \/ aa.access_type = "ROLE"
       /\ \E i \in 1..Len(user_info.roles) :
             Upper(aa.access_value) = Upper(user_info.roles[i])

Entitled(pa, user_info) ==
    pa.is_active /\ \E aa \in app_access : aa.app_id = pa.app_id /\ Granted(aa, user_info)

HasQuote(s) == \E i \in 1..Len(s) : s[i] = QUOTE

\* C1: with the warehouse available, get_accessible_apps returns an application
\* if and only if it is active and some grant matches the username or one of the
\* user's roles ignoring case, and returns it exactly once.
C1_Visibility ==
    (run.done /\ run.available) =>
        /\ \A pa \in portal_apps :
              CopiesIn(Selected(pa), run.apps_df)
                  = IF Entitled(pa, run.user_info) THEN 1 ELSE 0
        /\ BagToSet(run.apps_df) \subseteq {Selected(pa) : pa \in portal_apps}

PlainNames(user_info) ==
    /\ ~HasQuote(user_info.username)
    /\ \A i \in 1..Len(user_info.roles) : ~HasQuote(user_info.roles[i])

\* the rule of C1 for users whose name and role names hold no quote character
VisibilityOfPlainNames ==
    (run.done /\ PlainNames(run.user_info)) => C1_Visibility

NoDuplicates(s) == \A i, j \in 1..Len(s) : i # j => s[i] # s[j]

\* the roles list of get_current_user_info holds PUBLIC, no duplicate, no empty entry
RolesListWellFormed ==
    run.done =>
        /\ InSeq(PUBLIC, run.user_info.roles)
        /\ NoDuplicates(run.user_info.roles)
        /\ \A i \in 1..Len(run.user_info.roles) : Truthy(run.user_info.roles[i])

PublicGrant(pa) ==
    \E aa \in app_access :
        aa.app_id = pa.app_id /\ aa.access_type = "ROLE" /\ aa.access_value = PUBLIC

\* C5: the roles list always contains PUBLIC, without duplicate or empty entry,
\* so that with the warehouse available every user sees every active application
\* that has a ROLE grant for PUBLIC.
C5_PublicRole ==
    /\ RolesListWellFormed
    /\ (run.done /\ run.available) =>
          \A pa \in portal_apps :
              (pa.is_active /\ PublicGrant(pa)) => BagIn(Selected(pa), run.apps_df)

\* C7: given an empty set of accessible applications, display_app_grid shows the
\* empty-state message, renders no card and does not ask for the account info.
C7_EmptyState ==
    (run.done /\ run.apps_df = EmptyBag) =>
        /\ run.grid.message
        /\ run.grid.cards = EmptyBag
        /\ ~run.grid.app_info_fetched
        /\ ~run.grid.exc

\* the access query failed although an active application is granted to PUBLIC
C7_Witness ==
    /\ run.done /\ ~run.available /\ run.apps_error /\ run.apps_df = EmptyBag
    /\ \E pa \in portal_apps : pa.is_active /\ PublicGrant(pa)
    /\ run.grid.message

CardsOf(app) == {c \in BagToSet(run.grid.cards) : c.app_id = app.app_id}

Undecodable(image_path) ==
    \/ ~StartsWith(image_path, BASE64_PREFIX)
    \/ DecodeImage(RemoveAll(image_path, BASE64_PREFIX)).exc

\* C8: every accessible application gets exactly one card and the grid does not
\* fail; a NULL or empty image_path shows the placeholder image; for a non-empty
\* image_path that is not base64 data or cannot be decoded,
\* load_image_from_database returns None and the card shows a placeholder.
C8_Placeholder ==
    run.done =>
        /\ ~run.grid.exc
        /\ \A app \in BagToSet(run.apps_df) :
              /\ Cardinality(CardsOf(app)) = 1
              /\ \A c \in CardsOf(app) :
                    /\ CopiesIn(c, run.grid.cards) = 1
                    /\ ~Truthy(app.image_path) => c.image_src = PLACEHOLDER_NO_IMAGE
                    /\ (Truthy(app.image_path) /\ Undecodable(app.image_path)) =>
                          /\ load_image_from_database(app.image_path) = NULL
                          /\ c.image_src = PLACEHOLDER_CUSTOM

\* one card for a path that is no base64 data, one for base64 data that does not
\* decode
C8_Witness ==
    /\ run.done
    /\ \E a, b \in BagToSet(run.apps_df) :
          /\ Truthy(a.image_path) /\ ~StartsWith(a.image_path, BASE64_PREFIX)
          /\ StartsWith(b.image_path, BASE64_PREFIX) /\ Undecodable(b.image_path)
          /\ CardsOf(a) # {} /\ CardsOf(b) # {}

----------------------------------------------------------------------------
(* Claims on the connection and on navigation *)

\* C2: in every run of main show_portal_config is called only if
\* is_portal_admin holds of the user info fetched in that run.
C2_ConfigOnlyAdmin ==
    (nav.done /\ nav.config_shown) => nav.admin

\* C9: across page reruns of all sessions the body of get_snowflake_connection
\* runs at most once, and again only after an explicit clear of the resource
\* cache.
C9_Memoized ==
    /\ conn_body_runs <= 1
    /\ (nav.done /\ nav.body.ran /\ ~nav.cleared) => conn_body_runs = 1
    /\ (conn_cache = "empty") <=> (conn_body_runs = 0)

\* a run of a second session is served from the cache filled by the first
C9_Witness ==
    /\ nav.done /\ nav.s = 2 /\ ~nav.body.ran
    /\ session_state[1] # NoSessionState
    /\ conn_body_runs = 1

\* C10: an available ambient session is returned without touching the
\* credentials file; the file is tried only when get_active_session raises or
\* returns nothing; a missing file, a missing kb_demo entry or a failed login
\* return None, and main then stops before schema initialization and before
\* any query.
C10_ConnectionSelection ==
    /\ (nav.done /\ nav.body.ran) =>
          LET b == nav.body
          IN /\ b.envr.ambient = "session" => (b.conn = "Session" /\ ~b.file_tried)
             /\ b.file_tried => b.envr.ambient \in {"none", "raises"}
             /\ (b.envr.ambient # "session"
                 /\ (b.envr.file \in {"missing", "no_entry"} \/ ~b.envr.connect_ok))
                   => b.conn = "None"
    /\ (nav.done /\ nav.conn = "None") =>
          /\ nav.stopped /\ ~nav.schema_init /\ ~nav.queried /\ nav.page = "none"

\* the login failed outside the managed environment and the page stopped
C10_Witness ==
    /\ nav.done /\ nav.body.ran
    /\ nav.body.envr.ambient = "raises" /\ nav.body.envr.file = "ok"
    /\ ~nav.body.envr.connect_ok
    /\ nav.conn = "None" /\ nav.stopped

----------------------------------------------------------------------------
(* Claims on the configuration page *)

\* positions of the log of the last handler holding statement op on app_id
LogPositions(op, app_id) ==
    {j \in 1..Len(config_run.log) :
        config_run.log[j].op = op /\ config_run.log[j].app_id = app_id}

\* C3: removing an application cascades to its access rows. For every row
\* whose in_portal went from true to false in a save: the application row is
\* deleted only after the access rows were; when the save processed the row,
\* neither table holds a row with that app_id; a save that ends without an
\* error processed it.
C3_RemovalCascades ==
    config_run.op = "save" =>
        \A x \in config_run.removed :
            /\ \A j \in LogPositions("DELETE_APP", x) :
                  \E k \in LogPositions("DELETE_ACCESS", x) : k < j
            /\ LogPositions("DELETE_APP", x) # {} =>
                  /\ ~\E q \in portal_apps : q.app_id = x
                  /\ ~\E a \in app_access : a.app_id = x
            /\ ~config_run.raised => LogPositions("DELETE_APP", x) # {}
            /\ (\E a \in app_access : a.app_id = x) => (\E q \in portal_apps : q.app_id = x)

\* a save removed an application that had access rows
C3_Witness ==
    /\ config_run.op = "save" /\ ~config_run.raised
    /\ \E x \in config_run.removed :
          /\ \E k \in LogPositions("DELETE_ACCESS", x) : config_run.log[k].rows >= 1
          /\ \E j \in LogPositions("DELETE_APP", x) : config_run.log[j].rows = 1

\* C4: app_access holds at most one row for each combination of app_id,
\* access_type and access_value.
C4_AccessUnique ==
    \A a, b \in app_access :
        (a.app_id = b.app_id /\ a.access_type = b.access_type
         /\ a.access_value = b.access_value) => a = b

----------------------------------------------------------------------------
(* Claims on the fetch operations *)

\* DataFrame.empty, for a frame kept as a bag or as a sequence of rows
EmptyFrame(v) == DOMAIN v = {}

\* the result is one of the three defaults the error policy names
UniformDefault ==
    \/ fetch.kind = "frame" /\ EmptyFrame(fetch.val)
    \/ fetch.kind = "list" /\ fetch.val = <<>>
    \/ fetch.kind = "user_info"
       /\ fetch.val = [username |-> UNKNOWN, roles |-> <<PUBLIC>>]

----------------------------------------------------------------------------
(* streamlit_app.py: the timeout decorator, one statement of the wrapper    *)
(* per step. SIGALRM is delivered asynchronously: the handler runs between  *)
(* two statements of the main thread while the alarm is armed.              *)

\* calls through the wrapper that one behaviour follows
MaxCalls == 2

\* where the wrapper runs: a Unix main thread, a platform without
\* signal.SIGALRM (AttributeError), a thread where signal.signal raises
\* ValueError (every Streamlit script thread)
TimerEnvs == {"alarm", "no_sigalrm", "not_main_thread"}

\* what a call of the wrapped function does
FuncOutcomes == {"value", "ValueError", "AttributeError", "Error"}

dq_unchanged == <<objects, dq_cache, history, quality_results, dq_run, selection>>
timer_unchanged == <<db_vars, nav_vars, config_vars, dq_unchanged>>

\* the process before the first call: the default handler, no alarm
InitTimer(e) ==
    [pc |-> "idle", env |-> e, handler |-> "default", armed |-> FALSE, calls |-> 0]

\* wrapper(*args, **kwargs) is entered
TimerCall ==
    /\ timer.pc \in {"idle", "done"}
    /\ timer.calls < MaxCalls
    /\ timer' = [pc |-> "install", env |-> timer.env, handler |-> timer.handler,
                 armed |-> timer.armed, calls |-> timer.calls + 1,
                 entry_handler |-> timer.handler, old_handler |-> "unset",
                 func_runs |-> 0, func_armed |-> FALSE, fired |-> "no",
                 pending |-> "none", result |-> "none", outcome |-> "none",
                 warned |-> FALSE]
    /\ UNCHANGED timer_unchanged

\* old_handler = signal.signal(signal.SIGALRM, timeout_handler)
TimerInstall ==
    /\ timer.pc = "install"
    /\ timer' = CASE timer.env = "no_sigalrm" ->
                       [timer EXCEPT !.pending = "AttributeError", !.pc = "except"]
                  [] timer.env = "not_main_thread" ->
                       [timer EXCEPT !.pending = "ValueError", !.pc = "except"]
                  [] OTHER ->
                       [timer EXCEPT !.old_handler = timer.handler,
                                     !.handler = "timeout_handler", !.pc = "arm"]
    /\ UNCHANGED timer_unchanged

\* signal.alarm(seconds)
TimerArm ==
    /\ timer.pc = "arm"
    /\ timer' = [timer EXCEPT !.armed = TRUE, !.pc = "func"]
    /\ UNCHANGED timer_unchanged

\* result = func(*args, **kwargs) inside the inner try
TimerFunc(out) ==
    /\ timer.pc = "func"
    /\ timer' = [timer EXCEPT !.func_runs = @ + 1, !.func_armed = timer.armed,
                              !.result = IF out = "value" THEN "value" ELSE "none",
                              !.pending = IF out = "value" THEN "none" ELSE out,
                              !.pc = "finally_alarm"]
    /\ UNCHANGED timer_unchanged

\* the alarm expires: timeout_handler raises TimeoutError in the statement the
\* main thread is at, inside func or inside the finally block before
\* signal.alarm(0); an exception raised in the finally block leaves it
TimerAlarmFires ==
    /\ timer.pc \in {"func", "finally_alarm"}
    /\ timer.armed
    /\ timer.handler = "timeout_handler"
    /\ timer' = IF timer.pc = "func"
                THEN [timer EXCEPT !.armed = FALSE, !.fired = "in_func",
                                   !.func_runs = @ + 1, !.func_armed = TRUE,
                                   !.pending = "TimeoutError", !.pc = "finally_alarm"]
                ELSE [timer EXCEPT !.armed = FALSE, !.fired = "in_finally",
                                   !.result = "none",
                                   !.pending = "TimeoutError", !.pc = "except"]
    /\ UNCHANGED timer_unchanged

\* finally: signal.alarm(0)
TimerFinallyAlarm ==
    /\ timer.pc = "finally_alarm"
    /\ timer' = [timer EXCEPT !.armed = FALSE, !.pc = "finally_restore"]
    /\ UNCHANGED timer_unchanged

\* finally: signal.signal(signal.SIGALRM, old_handler)
TimerFinallyRestore ==
    /\ timer.pc = "finally_restore"
    /\ timer' = [timer EXCEPT !.handler = timer.old_handler,
                              !.pc = IF timer.pending = "none" THEN "return" ELSE "except"]
    /\ UNCHANGED timer_unchanged

\* return result
TimerReturn ==
    /\ timer.pc = "return"
    /\ timer' = [timer EXCEPT !.outcome = "returned", !.pc = "done"]
    /\ UNCHANGED timer_unchanged

\* except (AttributeError, ValueError): return func(*args, **kwargs), whose
\* own exception leaves the wrapper; except TimeoutError: st.warning, raise;
\* any other exception leaves the wrapper
TimerExcept(out) ==
    /\ timer.pc = "except"
    /\ timer' = CASE timer.pending \in {"AttributeError", "ValueError"} ->
                       [timer EXCEPT !.func_runs = @ + 1,
                                     !.result = IF out = "value" THEN "value" ELSE "none",
                                     !.pending = IF out = "value" THEN "none" ELSE out,
                                     !.outcome = IF out = "value" THEN "returned" ELSE "raised",
                                     !.pc = "done"]
                  [] timer.pending = "TimeoutError" ->
                       [timer EXCEPT !.warned = TRUE, !.outcome = "raised", !.pc = "done"]
                  [] OTHER ->
                       [timer EXCEPT !.outcome = "raised", !.pc = "done"]
    /\ UNCHANGED timer_unchanged

InitTimeout ==
    /\ portal_apps = {}
    /\ app_access = {}
    /\ env = NoEnv
    /\ run = NoRun
    /\ IdleNav
    /\ IdleConfig
    /\ \E e \in TimerEnvs : timer = InitTimer(e)
    /\ objects = <<>>
    /\ dq_cache = NoCache
    /\ history = <<>>
    /\ quality_results = <<>>
    /\ dq_run = NoDqRun
    /\ selection = NoSelection

NextTimeout ==
    \/ TimerCall
    \/ TimerInstall
    \/ TimerArm
    \/ \E out \in FuncOutcomes : TimerFunc(out)
    \/ TimerAlarmFires
    \/ TimerFinallyAlarm
    \/ TimerFinallyRestore
    \/ TimerReturn
    \/ \E out \in FuncOutcomes : TimerExcept(out)

SpecTimeout == InitTimeout /\ [][NextTimeout]_vars

----------------------------------------------------------------------------
(* Claims on the timeout wrapper *)

\* C11: the timeout decorator is a no-op where no Unix alarm signal exists
\* (the wrapped function runs once, never under an alarm, and its result is
\* what the wrapper returns); where the alarm exists, when the wrapper is left
\* the alarm is cancelled and the handler that was installed before the call
\* is installed again, on every path, and a timeout leaves as TimeoutError.
C11_AlarmReset ==
    timer.pc = "done" =>
       /\ timer.env # "alarm" =>
             /\ timer.func_runs = 1
             /\ ~timer.func_armed
             /\ timer.handler = timer.entry_handler
             /\ (timer.result = "value") = (timer.outcome = "returned")
       /\ timer.env = "alarm" =>
             /\ ~timer.armed
             /\ timer.handler = timer.entry_handler
             /\ timer.fired # "no" =>
                   (timer.outcome = "raised" /\ timer.pending = "TimeoutError")

----------------------------------------------------------------------------
(* streamlit_app.py: description generation and its history log *)

\* runs of the generation handler that one behaviour follows
MaxGenerations == 2

\* one base table and one view, each with one column
BaseTables == {"T"}
Views == {"V"}
ColumnKey == [T |-> "T.C", V |-> "V.C"]
ObjectKeys == {"T", "V", "T.C", "V.C"}

\* descriptions: the second one holds a quote
D1 == <<"a">>
D2 == <<QUOTE, "b">>
Descs == {D1, D2}

\* str.replace("'", "''")
RECURSIVE Escape(_)
Escape(text) ==
    IF text = <<>> THEN <<>>
    ELSE (IF Head(text) = QUOTE THEN <<QUOTE, QUOTE>> ELSE <<Head(text)>>)
         \o Escape(Tail(text))

\* the value the warehouse stores for '<escaped text>' in a statement
StoredText(text) ==
    LET read == SqlLiterals(<<QUOTE>> \o Escape(text) \o <<QUOTE>>)
    IN IF read.ok /\ Len(read.lits) = 1 THEN read.lits[1] ELSE NULL

\* get_tables_and_views / get_columns: CURRENT_DESCRIPTION of a listing
CurrentDescription(comment) == IF Truthy(comment) THEN comment ELSE NULL
TablesListing(objs) == [o \in BaseTables \cup Views |-> CurrentDescription(objs[o])]
ColumnsListing(objs, o) == CurrentDescription(objs[ColumnKey[o]])

\* st.cache_data: _conn and _refresh_key are not part of the key, the entry of
\* (database, schema[, table]) is served until it is cleared or expires
CacheKeys == {"tables", "T", "V"}
Cached(cache, k, fresh) ==
    IF cache[k].filled THEN cache
    ELSE [cache EXCEPT ![k] = [filled |-> TRUE, data |-> fresh]]

\* log_description_history on the rows of DATA_DESCRIPTION_HISTORY
log_description_history(rows, object_name, object_type, old_description, new_description, insert_ok) ==
    IF insert_ok
    THEN Append(rows, [object_name |-> object_name, object_type |-> object_type,
                       before |-> IF Truthy(old_description)
                                  THEN StoredText(old_description) ELSE NULL,
                       after |-> StoredText(new_description)])
    ELSE rows

\* one intended description update of a run: the description the object had
\* in the warehouse before the statement, the new one, and whether the
\* COMMENT / CREATE OR REPLACE VIEW statement succeeded
Update(key, before, after, ok) ==
    [key |-> key, before |-> before, after |-> after, ok |-> ok]

\* update_view_descriptions: st is the state the handler threads through
update_view_descriptions(st, view, columns_df, view_description, generate_columns, new_col_desc, exec_ok, insert_ok) ==
    LET col == ColumnKey[view]
        with_view == Truthy(view_description)
        with_col == generate_columns /\ Truthy(new_col_desc)
        col_comment == IF with_col THEN StoredText(new_col_desc)
                       ELSE IF Truthy(columns_df) THEN StoredText(columns_df)
                       ELSE NULL
        ups == (IF with_view
                THEN <<Update(view, st.objects[view], view_description, exec_ok)>>
                ELSE <<>>)
               \o (IF with_col
                   THEN <<Update(col, st.objects[col], new_col_desc, exec_ok)>>
                   ELSE <<>>)
        h1 == IF with_view
              THEN log_description_history(st.history, view, "VIEW", NULL,
                                           view_description, insert_ok)
              ELSE st.history
        h2 == IF with_col
              THEN log_description_history(h1, col, "COLUMN", NULL,
                                           new_col_desc, insert_ok)
              ELSE h1
    IN IF ~with_view /\ ~with_col
       THEN [st EXCEPT !.success = FALSE]
       ELSE IF ~exec_ok
       THEN [st EXCEPT !.success = FALSE, !.updates = @ \o ups]
       ELSE [st EXCEPT !.success = TRUE, !.updates = @ \o ups, !.history = h2,
                       !.objects = [@ EXCEPT ![view] = IF with_view
                                                       THEN StoredText(view_description)
                                                       ELSE NULL,
                                             ![col] = col_comment]]

\* the table / view part of generate_descriptions_for_objects
GenerateObject(st, obj, gtype, new_desc, exec_ok, insert_ok) ==
    LET c1 == Cached(st.cache, "tables", TablesListing(st.objects))
        current_desc == c1["tables"].data[obj]
        s1 == [st EXCEPT !.cache = c1]
        s2 == IF ~Truthy(new_desc) THEN s1
              ELSE IF obj \in BaseTables
              THEN IF exec_ok
                   THEN [s1 EXCEPT
                           !.objects = [@ EXCEPT ![obj] = StoredText(new_desc)],
                           !.history = log_description_history(@, obj, "TABLE",
                                           current_desc, new_desc, insert_ok),
                           !.total_updates = @ + 1,
                           !.updates = Append(@, Update(obj, s1.objects[obj], new_desc, TRUE))]
                   ELSE [s1 EXCEPT
                           !.updates = Append(@, Update(obj, s1.objects[obj], new_desc, FALSE))]
              ELSE [s1 EXCEPT !.view_desc = new_desc]
        c3 == Cached(s2.cache, obj, ColumnsListing(s2.objects, obj))
        s3 == update_view_descriptions([s2 EXCEPT !.cache = c3], obj, c3[obj].data,
                                       s2.view_desc, FALSE, NULL, exec_ok, insert_ok)
    IN IF gtype = "table" /\ obj \in Views /\ Truthy(s2.view_desc)
       THEN IF s3.success
            THEN [s3 EXCEPT !.view_desc = NULL, !.total_updates = @ + 1]
            ELSE s3
       ELSE s2

\* len(columns_df): every object of this model has one column
NumColumns(columns_df) == 1

\* the column part of generate_descriptions_for_objects
GenerateColumns(st, obj, new_col_desc, exec_ok, insert_ok) ==
    LET c1 == Cached(Cached(st.cache, obj, ColumnsListing(st.objects, obj)),
                     "tables", TablesListing(st.objects))
        s1 == [st EXCEPT !.cache = c1]
        col == ColumnKey[obj]
        current_col_desc == c1[obj].data
        v == update_view_descriptions(s1, obj, c1[obj].data, s1.view_desc, TRUE,
                                      new_col_desc, exec_ok, insert_ok)
    IN IF obj \in Views
       THEN IF v.success
            THEN [v EXCEPT !.view_desc = NULL,
                           !.total_updates = @ + NumColumns(c1[obj].data)
                                               + (IF Truthy(s1.view_desc) THEN 1 ELSE 0)]
            ELSE v
       ELSE IF ~Truthy(new_col_desc) THEN s1
       ELSE IF exec_ok
       THEN [s1 EXCEPT
               !.objects = [@ EXCEPT ![col] = StoredText(new_col_desc)],
               !.history = log_description_history(@, col, "COLUMN",
                               current_col_desc, new_col_desc, insert_ok),
               !.total_updates = @ + 1,
               !.updates = Append(@, Update(col, s1.objects[col], new_col_desc, TRUE))]
       ELSE [s1 EXCEPT
               !.updates = Append(@, Update(col, s1.objects[col], new_col_desc, FALSE))]

\* generate_descriptions_for_objects for one selected object
generate_descriptions_for_objects(st, obj, gtype, new_desc, new_col_desc, exec_ok, col_exec_ok, insert_ok) ==
    LET s1 == IF gtype \in {"table", "both"}
              THEN GenerateObject(st, obj, gtype, new_desc, exec_ok, insert_ok)
              ELSE st
    IN IF gtype \in {"column", "both"}
       THEN GenerateColumns(s1, obj, new_col_desc,
                            IF obj \in Views THEN exec_ok ELSE col_exec_ok, insert_ok)
       ELSE s1

desc_unchanged == <<db_vars, nav_vars, config_vars, timer, quality_results>>

\* a run of the Data Descriptions page in which a Generate button is clicked:
\* the page lists the objects of the schema, then the handler runs
Generate(obj, gtype, new_desc, new_col_desc, exec_ok, col_exec_ok, insert_ok) ==
    LET listed == Cached(dq_cache, "tables", TablesListing(objects))
        st == generate_descriptions_for_objects(
                  [objects |-> objects, cache |-> listed, history |-> history,
                   view_desc |-> selection.view_desc, updates |-> <<>>,
                   success |-> FALSE, total_updates |-> 0],
                  obj, gtype, new_desc, new_col_desc, exec_ok, col_exec_ok, insert_ok)
    IN /\ dq_run.n < MaxGenerations
       /\ objects' = st.objects
       /\ dq_cache' = st.cache
       /\ history' = st.history
       /\ selection' = [selection EXCEPT !.view_desc = st.view_desc]
       /\ dq_run' = [op |-> "generate", n |-> dq_run.n + 1,
                     applied |-> dq_run.applied, obj |-> obj,
                     gtype |-> gtype, updates |-> st.updates, insert_ok |-> insert_ok,
                     total_updates |-> st.total_updates,
                     first_row |-> Len(history) + 1,
                     stale |-> \E k \in {"tables", obj} :
                                  /\ dq_cache[k].filled
                                  /\ dq_cache[k].data #
                                        (IF k = "tables" THEN TablesListing(objects)
                                         ELSE ColumnsListing(objects, obj))]
       /\ UNCHANGED desc_unchanged

\* the Refresh Data button: st.cache_data.clear(); the entries also expire
\* after their ttl
RefreshData ==
    /\ \E k \in CacheKeys : dq_cache[k].filled
    /\ dq_cache' = [k \in CacheKeys |-> NoCache]
    /\ dq_run' = [dq_run EXCEPT !.op = "refresh"]
    /\ UNCHANGED <<objects, history, selection>>
    /\ UNCHANGED desc_unchanged

GenerationTypes == {"table", "column", "both"}

InitDesc ==
    /\ portal_apps = {}
    /\ app_access = {}
    /\ env = NoEnv
    /\ run = NoRun
    /\ IdleNav
    /\ IdleConfig
    /\ timer = NoTimer
    /\ \E d \in {NULL, D1} : objects = [k \in ObjectKeys |-> d]
    /\ dq_cache = [k \in CacheKeys |-> NoCache]
    /\ history = <<>>
    /\ quality_results = <<>>
    /\ dq_run = [op |-> "none", n |-> 0, applied |-> 0]
    /\ selection = [page |-> "Data Descriptions", view_desc |-> NULL]

NextDesc ==
    \/ \E obj \in BaseTables \cup Views, gtype \in GenerationTypes,
          new_desc \in Descs \cup {NULL}, new_col_desc \in Descs \cup {NULL},
          exec_ok \in BOOLEAN, col_exec_ok \in BOOLEAN, insert_ok \in BOOLEAN :
          Generate(obj, gtype, new_desc, new_col_desc, exec_ok, col_exec_ok, insert_ok)
    \/ RefreshData

SpecDesc == InitDesc /\ [][NextDesc]_vars

----------------------------------------------------------------------------
(* Claims on the description history *)

\* the history rows the last run appended for an object
RowsOfRun(key) ==
    {j \in dq_run.first_row..Len(history) : history[j].object_name = key}

\* C12: every successful description update of a table, view or column made
\* by generate_descriptions_for_objects appends exactly one history record,
\* whose BEFORE_DESCRIPTION is the description the object had before the change
\* and whose AFTER_DESCRIPTION is the new description; an update whose
\* statement failed appends no record.
C12_HistoryOfUpdates ==
    dq_run.op = "generate" =>
       \A i \in DOMAIN dq_run.updates :
          LET u == dq_run.updates[i]
          IN IF u.ok
             THEN /\ Cardinality(RowsOfRun(u.key)) = 1
                  /\ \A j \in RowsOfRun(u.key) :
                        /\ history[j].before = u.before
                        /\ history[j].after = u.after
             ELSE RowsOfRun(u.key) = {}

----------------------------------------------------------------------------
(* streamlit_app.py: bulk DMF configuration. The generated SQL is a list of *)
(* lines; a line is a comment, a blank line or one ALTER TABLE statement.   *)

\* clicks on Apply All DMFs that one behaviour follows
MaxApplies == 1
\* statements of one application the warehouse rejects
MaxFailures == 1

T1 == <<"T", "1">>
T2 == <<"T", "2">>
ROW_COUNT == "ROW_COUNT"
FRESHNESS == "FRESHNESS"
NULL_COUNT == "NULL_COUNT"

CommentLine == [kind |-> "comment"]
BlankLine == [kind |-> "blank"]
ScheduleLine(table) == [kind |-> "schedule", table |-> table]
AddLine(table, dmf, column) ==
    [kind |-> "add", table |-> table, dmf |-> dmf, column |-> column]

\* the lines generate_bulk_dmf_sql writes for one entry of table_configs
TableLines(config) ==
    <<CommentLine, CommentLine, CommentLine, BlankLine, CommentLine,
      ScheduleLine(config.table), BlankLine, CommentLine>>
    \o (IF config.row_count THEN <<AddLine(config.table, ROW_COUNT, NULL)>> ELSE <<>>)
    \o (IF config.freshness /\ config.freshness_column # NULL
        THEN <<AddLine(config.table, FRESHNESS, config.freshness_column)>> ELSE <<>>)
    \o (IF config.column_dmfs # <<>>
        THEN <<BlankLine, CommentLine>>
             \o [i \in 1..Len(config.column_dmfs) |->
                    AddLine(config.table, config.column_dmfs[i][2], config.column_dmfs[i][1])]
        ELSE <<>>)
    \o <<BlankLine, BlankLine>>

RECURSIVE AllTableLines(_)
AllTableLines(table_configs) ==
    IF table_configs = <<>> THEN <<>>
    ELSE TableLines(Head(table_configs)) \o AllTableLines(Tail(table_configs))

generate_bulk_dmf_sql(table_configs) ==
    <<CommentLine, CommentLine, CommentLine, CommentLine, CommentLine, BlankLine>>
    \o AllTableLines(table_configs)
    \o <<CommentLine, CommentLine, CommentLine>>

\* [line.strip() for line in sql_commands.split('\n')
\*  if line.strip() and not line.strip().startswith('--')]
SqlLines(sql_commands) ==
    SelectSeq(sql_commands, LAMBDA line : line.kind \notin {"comment", "blank"})

\* a log that keeps only the newest row
log_dmf_execution_replace(rows, sql_line, insert_ok) ==
    IF insert_ok
    THEN <<[object_name |-> Upper(sql_line.table),
            column_name |-> sql_line.column,
            object_type |-> IF sql_line.column # NULL
                            THEN <<"DMF", sql_line.dmf, "COLUMN">>
                            ELSE <<"DMF", sql_line.dmf>>,
            before |-> NULL,
            after |-> IF sql_line.column # NULL
                      THEN <<"Added", sql_line.dmf, sql_line.column>>
                      ELSE <<"Added", sql_line.dmf>>]>>
    ELSE rows

\* log_dmf_execution and log_dmf_history: the row of DATA_DESCRIPTION_HISTORY
\* of one ADD DATA METRIC FUNCTION statement
log_dmf_execution(rows, sql_line, insert_ok) ==
    IF insert_ok
    THEN Append(rows, [object_name |-> Upper(sql_line.table),
                       column_name |-> sql_line.column,
                       object_type |-> IF sql_line.column # NULL
                                       THEN <<"DMF", sql_line.dmf, "COLUMN">>
                                       ELSE <<"DMF", sql_line.dmf>>,
                       before |-> NULL,
                       after |-> IF sql_line.column # NULL
                                 THEN <<"Added", sql_line.dmf, sql_line.column>>
                                 ELSE <<"Added", sql_line.dmf>>])
    ELSE rows

\* an execution that gives up at the first failed statement
RECURSIVE ExecuteLines_stop_at_failure(_, _, _, _, _)
ExecuteLines_stop_at_failure(sql_lines, i, ok, insert_ok, acc) ==
    IF i > Len(sql_lines) THEN acc
    ELSE IF ok[i]
    THEN ExecuteLines_stop_at_failure(sql_lines, i + 1, ok, insert_ok,
            [acc EXCEPT !.executed = Append(@, [line |-> sql_lines[i], ok |-> TRUE]),
                        !.success_count = @ + 1,
                        !.rows = IF sql_lines[i].kind = "add"
                                 THEN log_dmf_execution(@, sql_lines[i], insert_ok)
                                 ELSE @])
    ELSE [acc EXCEPT !.executed = Append(@, [line |-> sql_lines[i], ok |-> FALSE]),
                     !.error_count = @ + 1]

\* the loop of execute_bulk_dmf_configuration from statement i on; ok[i] is
\* what execute_comment_sql returns for statement i
RECURSIVE ExecuteLines(_, _, _, _, _)
ExecuteLines(sql_lines, i, ok, insert_ok, acc) ==
    IF i > Len(sql_lines) THEN acc
    ELSE IF ok[i]
    THEN ExecuteLines(sql_lines, i + 1, ok, insert_ok,
            [acc EXCEPT !.executed = Append(@, [line |-> sql_lines[i], ok |-> TRUE]),
                        !.success_count = @ + 1,
                        !.rows = IF sql_lines[i].kind = "add"
                                 THEN log_dmf_execution(@, sql_lines[i], insert_ok)
                                 ELSE @])
    ELSE ExecuteLines(sql_lines, i + 1, ok, insert_ok,
            [acc EXCEPT !.executed = Append(@, [line |-> sql_lines[i], ok |-> FALSE]),
                        !.error_count = @ + 1])

execute_bulk_dmf_configuration(rows, sql_commands, ok, insert_ok) ==
    LET sql_lines == SqlLines(sql_commands)
        none == [executed |-> <<>>, success_count |-> 0, error_count |-> 0,
                 rows |-> rows]
        done == ExecuteLines(sql_lines, 1, ok, insert_ok, none)
    IN IF sql_lines = <<>>
       THEN [executed |-> <<>>, success_count |-> 0, error_count |-> 0,
             rows |-> rows, message |-> "No SQL commands to execute"]
       ELSE [executed |-> done.executed, success_count |-> done.success_count,
             error_count |-> done.error_count, rows |-> done.rows,
             message |-> IF done.error_count = 0 THEN "Success"
                         ELSE IF done.success_count > 0 THEN "Partial Success"
                         ELSE "Failed"]

\* what configure_table_dmfs returns for a table in the model
DmfChoices ==
    {[row_count |-> TRUE, freshness |-> FALSE, freshness_column |-> NULL,
      column_dmfs |-> <<>>],
     [row_count |-> FALSE, freshness |-> TRUE, freshness_column |-> <<"C">>,
      column_dmfs |-> <<>>],
     [row_count |-> TRUE, freshness |-> TRUE, freshness_column |-> NULL,
      column_dmfs |-> << <<<<"C">>, NULL_COUNT>> >>]}

TableConfig(table, choice) ==
    [table |-> table, row_count |-> choice.row_count, freshness |-> choice.freshness,
     freshness_column |-> choice.freshness_column, column_dmfs |-> choice.column_dmfs]

\* table_configurations of a run: one or two selected tables, in the order of
\* the selection
TableConfigurations ==
    {<<TableConfig(T1, c)>> : c \in DmfChoices}
    \cup {<<TableConfig(T2, c), TableConfig(T1, c)>> : c \in DmfChoices}

dmf_unchanged == <<db_vars, nav_vars, config_vars, timer, objects, dq_cache,
                   quality_results, selection>>

\* a run of the Data Quality page in which Apply All DMFs is clicked
ApplyDmfs(table_configs, ok, insert_ok) ==
    LET sql_commands == generate_bulk_dmf_sql(table_configs)
        r == execute_bulk_dmf_configuration(history, sql_commands, ok, insert_ok)
    IN /\ dq_run.applied < MaxApplies
       /\ history' = r.rows
       /\ dq_run' = [op |-> "apply_dmf", n |-> dq_run.n, applied |-> dq_run.applied + 1,
                     table_configs |-> table_configs, sql_commands |-> sql_commands,
                     executed |-> r.executed, success_count |-> r.success_count,
                     error_count |-> r.error_count, message |-> r.message,
                     insert_ok |-> insert_ok, first_row |-> Len(history) + 1]
       /\ UNCHANGED dmf_unchanged

ApplyAllDmfs ==
    /\ dq_run.applied < MaxApplies
    /\ \E table_configs \in TableConfigurations, insert_ok \in BOOLEAN :
          LET stmts == 1..Len(SqlLines(generate_bulk_dmf_sql(table_configs)))
          IN \E failed \in SUBSET stmts :
                /\ Cardinality(failed) <= MaxFailures
                /\ ApplyDmfs(table_configs, [i \in stmts |-> i \notin failed], insert_ok)

\* description changes between the applications: table / view descriptions
DescribeObject ==
    \E obj \in Views, insert_ok \in BOOLEAN :
       Generate(obj, "table", D2, NULL, TRUE, TRUE, insert_ok)

NextDmf ==
    \/ ApplyAllDmfs
    \/ DescribeObject

SpecDmf == InitDesc /\ [][NextDmf]_vars

----------------------------------------------------------------------------
(* Claims on the tracking tables and on the bulk DMF configuration *)

Prefix(a, b) == Len(a) <= Len(b) /\ SubSeq(b, 1, Len(a)) = a

Count(seq, Test(_)) == Cardinality({i \in DOMAIN seq : Test(seq[i])})

\* C13 as stated: after each application of a DMF configuration a record is
\* inserted into DATA_QUALITY_RESULTS.
C13_QualityResultLogged ==
    dq_run.op = "apply_dmf" => Len(quality_results) >= dq_run.applied

\* C13: both tracking tables are append-only and only DATA_DESCRIPTION_HISTORY
\* is fed: every step keeps the rows of DATA_DESCRIPTION_HISTORY as a prefix
\* and leaves DATA_QUALITY_RESULTS as it is; a DMF application appends one
\* history row per successful ADD DATA METRIC FUNCTION statement and a
\* generation one row per successful description update, each unless the
\* logging INSERT fails.
C13_AppendOnly ==
    [][/\ Prefix(history, history')
       /\ quality_results' = quality_results
       /\ dq_run'.op = "apply_dmf" =>
             Len(history') - Len(history) =
                IF dq_run'.insert_ok
                THEN Count(dq_run'.executed, LAMBDA e : e.ok /\ e.line.kind = "add")
                ELSE 0
       /\ dq_run'.op = "generate" =>
             Len(history') - Len(history) =
                IF dq_run'.insert_ok
                THEN Count(dq_run'.updates, LAMBDA u : u.ok)
                ELSE 0]_vars

\* a DMF application has appended rows behind the rows of a description change
C13_Witness ==
    /\ dq_run.op = "apply_dmf"
    /\ dq_run.first_row > 1
    /\ Len(history) >= dq_run.first_row
    /\ quality_results = <<>>

\* the index in the generated SQL of the k-th statement
StatementIndex(sql_commands, k) ==
    CHOOSE i \in DOMAIN sql_commands :
       /\ sql_commands[i].kind \in {"schedule", "add"}
       /\ Cardinality({j \in 1..i : sql_commands[j].kind \in {"schedule", "add"}}) = k

\* C15: a schedule is set before DMFs are added: in the generated SQL the SET
\* DATA_METRIC_SCHEDULE statement of a table precedes every ADD DATA METRIC
\* FUNCTION statement of that table, the statements are executed in that
\* order, and no ADD DATA METRIC FUNCTION statement is executed for a table
\* whose schedule statement has not succeeded.
C15_ScheduleBeforeDmfs ==
    dq_run.op = "apply_dmf" =>
       /\ \A i \in DOMAIN dq_run.sql_commands :
             dq_run.sql_commands[i].kind = "add" =>
                \E j \in 1..(i - 1) :
                   /\ dq_run.sql_commands[j].kind = "schedule"
                   /\ dq_run.sql_commands[j].table = dq_run.sql_commands[i].table
       /\ \A k \in DOMAIN dq_run.executed :
             dq_run.executed[k].line.kind = "add" =>
                \E j \in 1..(k - 1) :
                   /\ dq_run.executed[j].line.kind = "schedule"
                   /\ dq_run.executed[j].line.table = dq_run.executed[k].line.table
                   /\ dq_run.executed[j].ok

\* the history row of the last run that an executed statement accounts for
RowOfStatement(row, e) ==
    /\ e.ok
    /\ e.line.kind = "add"
    /\ row.object_name = Upper(e.line.table)
    /\ row.column_name = e.line.column
    /\ row.object_type[2] = e.line.dmf

\* C16: execute_bulk_dmf_configuration attempts every non-comment, non-blank
\* statement exactly once, in order, also after a failure; success_count +
\* error_count is the number of statements; the success message is shown
\* exactly when error_count = 0; every DMF history row of the run belongs to
\* an ADD DATA METRIC FUNCTION statement that succeeded.
C16_BulkExecution ==
    dq_run.op = "apply_dmf" =>
       LET sql == dq_run.sql_commands
           total == Count(sql, LAMBDA line : line.kind \in {"schedule", "add"})
           appended == dq_run.first_row..Len(history)
       IN /\ Len(dq_run.executed) = total
          /\ \A k \in 1..total :
                dq_run.executed[k].line = sql[StatementIndex(sql, k)]
          /\ dq_run.success_count = Count(dq_run.executed, LAMBDA e : e.ok)
          /\ dq_run.error_count = Count(dq_run.executed, LAMBDA e : ~e.ok)
          /\ dq_run.success_count + dq_run.error_count = total
          /\ (dq_run.message = "Success") = (dq_run.error_count = 0)
          /\ \A j \in appended :
                \E k \in DOMAIN dq_run.executed :
                   RowOfStatement(history[j], dq_run.executed[k])
          /\ Cardinality(appended) <=
                Count(dq_run.executed, LAMBDA e : e.ok /\ e.line.kind = "add")

\* a statement failed, a later ADD statement succeeded and was logged
C16_Witness ==
    /\ dq_run.op = "apply_dmf"
    /\ Len(history) >= dq_run.first_row
    /\ \E k \in DOMAIN dq_run.executed :
          /\ ~dq_run.executed[k].ok
          /\ \E m \in (k + 1)..Len(dq_run.executed) :
                /\ dq_run.executed[m].ok
                /\ dq_run.executed[m].line.kind = "add"

----------------------------------------------------------------------------
(* test_setup.py: add_sample_app_data *)

\* runs of add_sample_app_data that one behaviour follows
MaxSampleRuns == 2

SAMPLE_DASHBOARD == <<"S","A","M","P","L","E","_","D">>
SAMPLE_ANALYTICS == <<"S","A","M","P","L","E","_","A">>
sample_apps == <<SAMPLE_DASHBOARD, SAMPLE_ANALYTICS>>

SampleRow(id) ==
    [AppRow(id, NULL, TRUE) EXCEPT
        !.app_title = IF id = SAMPLE_DASHBOARD THEN <<"S","D">> ELSE <<"A","T">>]

\* the rows an administrator can have left behind for the sample applications
\* and for another application, each grant with its own access_id
SamplePool ==
    {[access_id |-> 1, app_id |-> SAMPLE_DASHBOARD, access_type |-> "ROLE", access_value |-> PUBLIC],
     [access_id |-> 2, app_id |-> SAMPLE_DASHBOARD, access_type |-> "USER", access_value |-> <<"K","B">>],
     [access_id |-> 3, app_id |-> SAMPLE_ANALYTICS, access_type |-> "ROLE", access_value |-> PUBLIC],
     [access_id |-> 4, app_id |-> APP1, access_type |-> "ROLE", access_value |-> PUBLIC]}

\* a run that inserts without looking for an existing row
RECURSIVE AddSamples_unchecked(_, _, _, _)
AddSamples_unchecked(st, todo, k, fail_at) ==
    IF todo = <<>> THEN [st EXCEPT !.result = TRUE]
    ELSE LET id == Head(todo)
             with_app == [st EXCEPT !.apps = @ \cup {SampleRow(id)},
                                    !.inserted = @ \cup {id}]
             with_grant == [with_app EXCEPT
                               !.access = @ \cup {[access_id |-> st.seq, app_id |-> id,
                                                   access_type |-> "ROLE",
                                                   access_value |-> PUBLIC]},
                               !.seq = @ + 1]
         IN IF fail_at = k + 1 THEN st
            ELSE IF fail_at = k + 2 THEN st
            ELSE IF fail_at = k + 3 THEN with_app
            ELSE AddSamples_unchecked(with_grant, Tail(todo), k + 3, fail_at)

\* the loop of add_sample_app_data over the applications still to do; k
\* statements were executed so far and statement fail_at raises, which ends
\* the run with the result False
RECURSIVE AddSamples(_, _, _, _)
AddSamples(st, todo, k, fail_at) ==
    IF todo = <<>> THEN [st EXCEPT !.result = TRUE]
    ELSE LET id == Head(todo)
             cnt == Cardinality({pa \in st.apps : pa.app_id = id})
             with_app == [st EXCEPT !.apps = @ \cup {SampleRow(id)},
                                    !.inserted = @ \cup {id}]
             with_grant == [with_app EXCEPT
                               !.access = @ \cup {[access_id |-> st.seq, app_id |-> id,
                                                   access_type |-> "ROLE",
                                                   access_value |-> PUBLIC]},
                               !.seq = @ + 1]
         IN IF fail_at = k + 1 THEN st
            ELSE IF cnt # 0 THEN AddSamples(st, Tail(todo), k + 1, fail_at)
            ELSE IF fail_at = k + 2 THEN st
            ELSE IF fail_at = k + 3 THEN with_app
            ELSE AddSamples(with_grant, Tail(todo), k + 3, fail_at)

add_sample_app_data(fail_at) ==
    LET st == AddSamples([apps |-> portal_apps, access |-> app_access,
                          seq |-> access_seq, inserted |-> {}, result |-> FALSE],
                         sample_apps, 0, fail_at)
    IN /\ config_run.runs < MaxSampleRuns
       /\ portal_apps' = st.apps
       /\ app_access' = st.access
       /\ access_seq' = st.seq
       /\ config_run' = [op |-> "sample", runs |-> config_run.runs + 1,
                         result |-> st.result, inserted |-> st.inserted,
                         before_apps |-> portal_apps, before_access |-> app_access,
                         completed_before |-> config_run.completed_before
                                              \/ (config_run.op = "sample" /\ config_run.result),
                         inserted_before |-> config_run.inserted_before
                                             \cup (IF config_run.op = "sample"
                                                   THEN config_run.inserted ELSE {})]
       /\ UNCHANGED <<env, run, nav_vars, fetch, dq_vars>>

\* two applications make at most six statements; 0 is a run without failure
SampleStatements == 0..6

AddSampleData == \E fail_at \in SampleStatements : add_sample_app_data(fail_at)

InitSample ==
    /\ \E present \in SUBSET {SAMPLE_DASHBOARD, SAMPLE_ANALYTICS, APP1},
          active \in SUBSET {SAMPLE_DASHBOARD, SAMPLE_ANALYTICS, APP1} :
          /\ active \subseteq present
          /\ portal_apps = {[SampleRow(id) EXCEPT !.is_active = (id \in active)] :
                               id \in present}
          /\ \E grants \in SUBSET SamplePool :
                /\ \A g \in grants : g.app_id \in present
                /\ app_access = grants
    /\ env = NoEnv
    /\ run = NoRun
    /\ IdleNav
    /\ access_seq = NextIdentity(app_access)
    /\ config_run = [op |-> "none", runs |-> 0, completed_before |-> FALSE,
                     inserted_before |-> {}]
    /\ fetch = NoFetch
    /\ IdleDq

SpecSample == InitSample /\ [][AddSampleData]_vars

----------------------------------------------------------------------------
(* Claims on the sample data *)

PublicGrants(access, id) ==
    {a \in access : a.app_id = id /\ a.access_type = "ROLE" /\ a.access_value = PUBLIC}

----------------------------------------------------------------------------
(* Claims on the tabs and on the setup gate of the Data Quality app *)

\* C17 as stated: in every run of the data-quality app active_tab is one of
\* the five tabs, exactly one page function is rendered, and a click on a
\* navigation or quick-action button sets active_tab to the clicked target.
C17_OnePagePerRun ==
    (process_app = "snowdq" /\ nav.done) =>
       /\ session_state[nav.s].active_tab \in TabKeys
       /\ Cardinality(nav.pages) = 1
       /\ nav.target # "none" => session_state[nav.s].active_tab = nav.target

\* C17: the selected tab is the UI state of the data-quality app: active_tab
\* starts as Home and is one of the five tabs after every run; no run renders
\* more than one page function and the one rendered is the page of active_tab;
\* a run that is not ended early renders exactly one, a run ended by st.stop()
\* or by the st.rerun() of a navigation click renders none; a click that a run
\* not stopped handles sets active_tab to the clicked target.
C17_TabStateMachine ==
    (process_app = "snowdq" /\ nav.done) =>
       LET active_tab == session_state[nav.s].active_tab
           clicked == nav.target # "none" /\ ~nav.stopped
       IN /\ active_tab \in TabKeys
          /\ (nav.fresh /\ ~clicked) => active_tab = "Home"
          /\ Cardinality(nav.pages) <= 1
          /\ nav.pages \subseteq {active_tab}
          /\ (nav.stopped \/ clicked) = (nav.pages = {})
          /\ clicked => active_tab = nav.target

\* a quick-action or navigation click was handled: the run set the tab and
\* ended in st.rerun() without page content
C17_Witness ==
    /\ process_app = "snowdq"
    /\ nav.done
    /\ ~nav.stopped
    /\ nav.target \in TabKeys \ {"Home"}
    /\ session_state[nav.s].active_tab = nav.target
    /\ \E s \in Sessions : s # nav.s /\ session_state[s].active_tab = "Home"

\* C18: database setup gates the data-quality app: a run sets setup_complete
\* only if setup_database_objects returned True in it; once set it stays set
\* and no run of the session runs setup again; a run whose setup fails is
\* stopped without page content and leaves setup_complete unset, and every run
\* with a connection and without setup_complete runs setup.
C18_SetupGate ==
    [][process_app = "snowdq" =>
          LET before == session_state[nav'.s].setup_complete
              after == session_state'[nav'.s].setup_complete
          IN /\ before = "True" => (after = "True" /\ nav'.setup = "skipped")
             /\ (before = "unset" /\ after = "True") => nav'.setup = "True"
             /\ nav'.setup = "False" =>
                   (nav'.stopped /\ nav'.pages = {} /\ after = "unset")
             /\ (before = "unset" /\ nav'.conn # "None") => nav'.setup # "skipped"]_vars

\* the setup of one session failed and stopped its run while another session
\* is past the gate
C18_Witness ==
    /\ process_app = "snowdq"
    /\ nav.done
    /\ nav.setup = "False"
    /\ nav.stopped
    /\ session_state[nav.s].setup_complete = "unset"
    /\ \E s \in Sessions : session_state[s].setup_complete = "True"

----------------------------------------------------------------------------
(* streamlit_app.py: the database and schema selectors of the Data          *)
(* Descriptions and Data Contacts pages                                     *)

\* databases of the account and the schemas get_schemas lists for each
SelectableDatabases == <<"DB1", "DB2", "DB3">>
SchemasOf(database_name) ==
    CASE database_name = "DB1" -> <<"PUBLIC", "SALES">>
      [] database_name = "DB2" -> <<"PUBLIC">>
      [] OTHER -> <<"PUBLIC", "SALES">>

\* options=[""] + names
Options(names) == <<"">> \o names

\* current index: names.index(remembered) + 1 if remembered in names else 0
CurrentIndex(remembered, names) ==
    IF \E i \in DOMAIN names : names[i] = remembered
    THEN CHOOSE i \in DOMAIN names :
            names[i] = remembered /\ \A j \in 1..(i - 1) : names[j] # remembered
    ELSE 0

\* the option a selectbox shows for a new widget: options[index]
Preselected(remembered, names) == Options(names)[CurrentIndex(remembered, names) + 1]

\* the values a selectbox can return: the user's pick, the value the widget
\* kept, or the preselected option
Selectable(names) == {Options(names)[i] : i \in DOMAIN Options(names)}

\* the session keys of initialize_session_state; contacts_database and
\* contacts_schema are read with a default of '' while they are absent
InitSelection ==
    [desc_database |-> "", desc_schema |-> "", dmf_schema |-> "",
     contacts_database |-> "", contacts_schema |-> ""]

\* a page that keeps the remembered schema when the database changes
show_data_descriptions_page_keep(sel, databases, selected_db, selected_schema) ==
    LET db_changed == selected_db # sel.desc_database
        s1 == IF db_changed
              THEN [sel EXCEPT !.desc_database = selected_db]
              ELSE sel
        schemas == SchemasOf(selected_db)
        s2 == IF selected_db # "" /\ selected_schema # s1.desc_schema
              THEN [s1 EXCEPT !.desc_schema = selected_schema]
              ELSE s1
    IN IF databases = <<>>
       THEN [sel |-> sel, shown |-> FALSE]
       ELSE [sel |-> s2, shown |-> TRUE, db_changed |-> db_changed,
             selected_db |-> selected_db, schema_before |-> sel.desc_schema,
             remembered |-> s1.desc_schema,
             preselected |-> IF selected_db # ""
                             THEN Preselected(s1.desc_schema, schemas) ELSE "",
             selected_schema |-> IF selected_db # "" THEN selected_schema ELSE ""]

\* the selectors of show_data_descriptions_page: selected_db and
\* selected_schema are what the two selectboxes return
show_data_descriptions_page(sel, databases, selected_db, selected_schema) ==
    LET db_changed == selected_db # sel.desc_database
        s1 == IF db_changed
              THEN [sel EXCEPT !.desc_database = selected_db, !.desc_schema = ""]
              ELSE sel
        schemas == SchemasOf(selected_db)
        s2 == IF selected_db # "" /\ selected_schema # s1.desc_schema
              THEN [s1 EXCEPT !.desc_schema = selected_schema]
              ELSE s1
    IN IF databases = <<>>
       THEN [sel |-> sel, shown |-> FALSE]
       ELSE [sel |-> s2, shown |-> TRUE, db_changed |-> db_changed,
             selected_db |-> selected_db, schema_before |-> sel.desc_schema,
             remembered |-> s1.desc_schema,
             preselected |-> IF selected_db # ""
                             THEN Preselected(s1.desc_schema, schemas) ELSE "",
             selected_schema |-> IF selected_db # "" THEN selected_schema ELSE ""]

\* the selectors of show_data_contacts_page: the database block writes
\* contacts_schema, the schema selector reads and writes dmf_schema
show_data_contacts_page(sel, databases, selected_db, selected_schema) ==
    LET db_changed == selected_db # sel.contacts_database
        s1 == IF db_changed
              THEN [sel EXCEPT !.contacts_database = selected_db,
                               !.contacts_schema = ""]
              ELSE sel
        schemas == SchemasOf(selected_db)
        s2 == IF selected_db # "" /\ selected_schema # s1.dmf_schema
              THEN [s1 EXCEPT !.dmf_schema = selected_schema]
              ELSE s1
    IN [sel |-> s2, shown |-> TRUE, db_changed |-> db_changed,
        selected_db |-> selected_db, schema_before |-> sel.dmf_schema,
        remembered |-> s1.dmf_schema,
        preselected |-> IF selected_db # ""
                        THEN Preselected(s1.dmf_schema, schemas) ELSE "",
        selected_schema |-> IF selected_db # "" THEN selected_schema ELSE ""]

select_unchanged == <<db_vars, nav_vars, config_vars, timer, objects, dq_cache,
                      history, quality_results>>

\* what get_databases returns in a run: nothing, or the databases
SelectorDatabases == {<<>>, SelectableDatabases}

\* a run of main that shows the Data Descriptions page
DescriptionsRun ==
    \E databases \in SelectorDatabases :
       \E selected_db \in Selectable(databases) :
          \E selected_schema \in Selectable(SchemasOf(selected_db)) :
             LET r == show_data_descriptions_page(selection, databases,
                                                  selected_db, selected_schema)
             IN /\ selection' = r.sel
                /\ dq_run' = [op |-> "select", page |-> "Data Descriptions",
                              shown |-> r.shown,
                              view |-> [k \in DOMAIN r \ {"sel"} |-> r[k]]]
                /\ UNCHANGED select_unchanged

\* a run of main that shows the Data Contacts page
ContactsRun ==
    \E databases \in SelectorDatabases :
       \E selected_db \in Selectable(databases) :
          \E selected_schema \in Selectable(SchemasOf(selected_db)) :
             LET r == show_data_contacts_page(selection, databases,
                                              selected_db, selected_schema)
             IN /\ selection' = r.sel
                /\ dq_run' = [op |-> "select", page |-> "Data Contacts",
                              shown |-> r.shown,
                              view |-> [k \in DOMAIN r \ {"sel"} |-> r[k]]]
                /\ UNCHANGED select_unchanged

InitSelect ==
    /\ portal_apps = {}
    /\ app_access = {}
    /\ env = NoEnv
    /\ run = NoRun
    /\ IdleNav
    /\ IdleConfig
    /\ timer = NoTimer
    /\ objects = <<>>
    /\ dq_cache = NoCache
    /\ history = <<>>
    /\ quality_results = <<>>
    /\ dq_run = NoDqRun
    /\ selection = InitSelection

NextSelect == DescriptionsRun \/ ContactsRun

SpecSelect == InitSelect /\ [][NextSelect]_vars

----------------------------------------------------------------------------
(* Claims on the remembered schema *)

\* a run of the page in which the selected database differs from the
\* remembered one
DatabaseChanged(page) ==
    /\ dq_run.op = "select"
    /\ dq_run.page = page
    /\ dq_run.shown
    /\ dq_run.view.db_changed

\* C19: on the Data Descriptions page, in any run where the selected database
\* differs from desc_database, desc_database becomes the new selection and
\* desc_schema becomes empty before the schema selector is built, so the
\* selector of the new database preselects the empty option and not a schema
\* remembered for the previous database.
C19_DescSchemaReset ==
    DatabaseChanged("Data Descriptions") =>
       /\ selection.desc_database = dq_run.view.selected_db
       /\ dq_run.view.remembered = ""
       /\ dq_run.view.preselected = ""
       /\ selection.desc_schema = dq_run.view.selected_schema

\* the database changed while a schema was remembered that the new database
\* has too
C19_Witness ==
    /\ DatabaseChanged("Data Descriptions")
    /\ dq_run.view.schema_before = "PUBLIC"
    /\ dq_run.view.selected_db = "DB2"
    /\ dq_run.view.preselected = ""

\* C20: on the Data Contacts page, in any run where the selected database
\* differs from the remembered one and a schema selector is shown, the schema
\* the page uses to preselect that selector is empty.
C20_ContactsSchemaReset ==
    (DatabaseChanged("Data Contacts") /\ dq_run.view.selected_db # "") =>
       /\ dq_run.view.remembered = ""
       /\ dq_run.view.preselected = ""

----------------------------------------------------------------------------
(* streamlit_app.py: update_view_descriptions on a view of two columns. The *)
(* warehouse holds the COMMENT of the view and of each of its columns; the  *)
(* column list of CREATE OR REPLACE VIEW is built from the cached listing.  *)

\* runs of the generation handler on the view that one behaviour follows
MaxRecreations == 2

COL_A == <<"A">>
COL_B == <<"B">>
COL_a == <<"a">>
\* the columns of the view: names that differ, or that differ in case only
ViewColumnNames == {<<COL_A, COL_B>>, <<COL_A, COL_a>>}

\* a comment of blanks only
Blank == <<" ">>

\* current_comment and current_comment.strip()
NonBlank(comment) ==
    Truthy(comment) /\ \E i \in DOMAIN comment : comment[i] # " "

\* get_columns: one row per column, CURRENT_DESCRIPTION None for no comment
ViewColumnsListing(columns) ==
    [i \in DOMAIN columns |->
        [COLUMN_NAME |-> columns[i].name,
         CURRENT_DESCRIPTION |-> CurrentDescription(columns[i].comment)]]

\* Step 2: the dictionary column_descriptions, in insertion order; generated[i]
\* is what generate_column_description returned for row i (None: nothing, or
\* it raised)
RECURSIVE ColumnDescriptions(_, _, _)
ColumnDescriptions(columns_df, generated, i) ==
    IF i > Len(columns_df) THEN <<>>
    ELSE (IF Truthy(generated[i])
          THEN <<[col |-> columns_df[i].COLUMN_NAME, desc |-> generated[i]]>>
          ELSE <<>>)
         \o ColumnDescriptions(columns_df, generated, i + 1)

\* the first entry of column_descriptions whose key equals col_name ignoring
\* case, or None
NewComment(column_descriptions, col_name) ==
    LET hits == {k \in DOMAIN column_descriptions :
                    Upper(column_descriptions[k].col) = Upper(col_name)}
    IN IF hits = {} THEN NULL
       ELSE column_descriptions[CHOOSE k \in hits : \A h \in hits : k <= h].desc

\* column_definitions: one entry per row of columns_df; literal is the text
\* between the quotes of COMMENT '...', NULL for a bare column name
ColumnDefinitions(columns_df, column_descriptions) ==
    [i \in DOMAIN columns_df |->
        LET row == columns_df[i]
            new_comment == NewComment(column_descriptions, row.COLUMN_NAME)
        IN IF new_comment # NULL
           THEN [name |-> row.COLUMN_NAME, literal |-> Escape(new_comment)]
           ELSE IF NonBlank(row.CURRENT_DESCRIPTION)
           THEN [name |-> row.COLUMN_NAME,
                 literal |-> Escape(row.CURRENT_DESCRIPTION)]
           ELSE [name |-> row.COLUMN_NAME, literal |-> NULL]]

\* what the warehouse reads between the quotes of a literal
ReadLiteral(literal) ==
    LET read == SqlLiterals(<<QUOTE>> \o literal \o <<QUOTE>>)
    IN IF read.ok /\ Len(read.lits) = 1 THEN read.lits[1] ELSE NULL

\* CREATE OR REPLACE VIEW v (<column list>) ...: the column names are not
\* quoted, so the warehouse folds them to upper case and rejects a list that
\* names a column twice
ColumnListAccepted(column_definitions) ==
    \A i, j \in DOMAIN column_definitions :
       Upper(column_definitions[i].name) = Upper(column_definitions[j].name) => i = j

\* the columns of the view after the statement succeeded
RecreatedColumns(column_definitions) ==
    [i \in DOMAIN column_definitions |->
        [name |-> Upper(column_definitions[i].name),
         comment |-> IF column_definitions[i].literal = NULL THEN NULL
                     ELSE ReadLiteral(column_definitions[i].literal)]]

\* the history rows of a successful recreation (lines 2171-2178)
RECURSIVE LogColumns(_, _, _, _)
LogColumns(rows, column_descriptions, i, insert_ok) ==
    IF i > Len(column_descriptions) THEN rows
    ELSE LogColumns(log_description_history(rows,
                        <<"V", column_descriptions[i].col>>, "COLUMN", NULL,
                        column_descriptions[i].desc, insert_ok),
                    column_descriptions, i + 1, insert_ok)

\* update_view_descriptions(conn, ..., columns_df, ..., view_description,
\* generate_columns); st holds the warehouse, the history and the result
UpdateViewDescriptions(st, columns_df, view_description, generate_columns, generated, exec_ok, insert_ok) ==
    LET column_descriptions ==
            IF generate_columns THEN ColumnDescriptions(columns_df, generated, 1)
            ELSE <<>>
        column_definitions == ColumnDefinitions(columns_df, column_descriptions)
        executed == exec_ok /\ ColumnListAccepted(column_definitions)
        h1 == IF Truthy(view_description)
              THEN log_description_history(st.history, "V", "VIEW", NULL,
                                           view_description, insert_ok)
              ELSE st.history
    IN IF ~Truthy(view_description) /\ column_descriptions = <<>>
       THEN [st EXCEPT !.success = FALSE]
       ELSE IF ~executed
       THEN [st EXCEPT !.success = FALSE,
                       !.column_descriptions = column_descriptions,
                       !.column_definitions = column_definitions]
       ELSE [st EXCEPT !.success = TRUE,
                       !.column_descriptions = column_descriptions,
                       !.column_definitions = column_definitions,
                       !.history = LogColumns(h1, column_descriptions, 1, insert_ok),
                       !.objects = [view |-> IF Truthy(view_description)
                                             THEN StoredText(view_description)
                                             ELSE NULL,
                                    columns |-> RecreatedColumns(column_definitions)]]

\* generate_descriptions_for_objects for the view: the table part stores the
\* generated view description in the session and applies it at once when only
\* 'table' was asked for; the column part recreates the view
GenerateForView(st, gtype, new_desc, generated, exec_ok, insert_ok) ==
    LET columns_df == st.cache.data
        s1 == IF gtype \in {"table", "both"} /\ Truthy(new_desc)
              THEN [st EXCEPT !.view_desc = new_desc]
              ELSE st
        t == UpdateViewDescriptions(s1, columns_df, s1.view_desc, FALSE,
                                    generated, exec_ok, insert_ok)
        c == UpdateViewDescriptions(s1, columns_df, s1.view_desc, TRUE,
                                    generated, exec_ok, insert_ok)
    IN IF gtype = "table"
       THEN IF Truthy(s1.view_desc)
            THEN [t EXCEPT !.view_desc = IF t.success THEN NULL ELSE @,
                           !.total_updates = IF t.success THEN @ + 1 ELSE @,
                           !.called = TRUE]
            ELSE s1
       ELSE [c EXCEPT !.view_desc = IF c.success THEN NULL ELSE @,
                      !.total_updates =
                          IF c.success
                          THEN @ + Len(columns_df)
                                 + (IF Truthy(s1.view_desc) THEN 1 ELSE 0)
                          ELSE @,
                      !.called = TRUE]

view_unchanged == <<db_vars, nav_vars, config_vars, timer, quality_results>>

\* a run of the Data Descriptions page in which a Generate button is clicked
\* for the view: get_columns is served from st.cache_data
GenerateView(gtype, new_desc, generated, exec_ok, insert_ok) ==
    LET listed == IF dq_cache.filled THEN dq_cache
                  ELSE [filled |-> TRUE, data |-> ViewColumnsListing(objects.columns)]
        st == GenerateForView(
                  [objects |-> objects, cache |-> listed, history |-> history,
                   view_desc |-> selection.view_desc, success |-> FALSE,
                   called |-> FALSE, total_updates |-> 0,
                   column_descriptions |-> <<>>, column_definitions |-> <<>>],
                  gtype, new_desc, generated, exec_ok, insert_ok)
    IN /\ dq_run.n < MaxRecreations
       /\ objects' = st.objects
       /\ dq_cache' = st.cache
       /\ history' = st.history
       /\ selection' = [selection EXCEPT !.view_desc = st.view_desc]
       /\ dq_run' = [op |-> "view", n |-> dq_run.n + 1, gtype |-> gtype,
                     recreated |-> st.called /\ st.success,
                     columns_df |-> listed.data,
                     before |-> objects.columns,
                     column_descriptions |-> st.column_descriptions,
                     column_definitions |-> st.column_definitions,
                     total_updates |-> st.total_updates]
       /\ UNCHANGED view_unchanged

\* the Refresh Data button: st.cache_data.clear()
RefreshView ==
    /\ dq_cache.filled
    /\ dq_cache' = NoCache
    /\ dq_run' = [dq_run EXCEPT !.op = "refresh"]
    /\ UNCHANGED <<objects, history, selection>>
    /\ UNCHANGED view_unchanged

\* comments a column has before the first run
InitialComments == {NULL, D1, Blank}
\* what generate_column_description returns for the two columns
GeneratedPool == [1..2 -> {NULL, D2}]

InitView ==
    /\ portal_apps = {}
    /\ app_access = {}
    /\ env = NoEnv
    /\ run = NoRun
    /\ IdleNav
    /\ IdleConfig
    /\ timer = NoTimer
    /\ \E names \in ViewColumnNames, c1 \in InitialComments, c2 \in InitialComments :
          objects = [view |-> NULL,
                     columns |-> <<[name |-> names[1], comment |-> c1],
                                   [name |-> names[2], comment |-> c2]>>]
    /\ dq_cache = NoCache
    /\ history = <<>>
    /\ quality_results = <<>>
    /\ dq_run = [op |-> "none", n |-> 0]
    /\ selection = [page |-> "Data Descriptions", view_desc |-> NULL]

GenerateViewClick ==
    \E gtype \in GenerationTypes, new_desc \in {NULL, D2}, generated \in GeneratedPool,
       exec_ok \in BOOLEAN, insert_ok \in BOOLEAN :
       GenerateView(gtype, new_desc, generated, exec_ok, insert_ok)

NextView == GenerateViewClick \/ RefreshView

SpecView == InitView /\ [][NextView]_vars

----------------------------------------------------------------------------
(* Claims on the recreated view *)

\* the positions of the new column list that name a column
Entries(column_definitions, col_name) ==
    {j \in DOMAIN column_definitions : column_definitions[j].name = col_name}

\* the description generated in this run for row i, NULL for none
GeneratedFor(i) ==
    LET hits == {k \in DOMAIN dq_run.column_descriptions :
                    dq_run.column_descriptions[k].col = dq_run.columns_df[i].COLUMN_NAME}
    IN IF hits = {} THEN NULL
       ELSE dq_run.column_descriptions[CHOOSE k \in hits : TRUE].desc

\* C21: when update_view_descriptions recreated the view, every listed column
\* appears exactly once in the new column list, a column with a newly
\* generated description carries it, and every other column that had a
\* non-blank comment before the run has the same comment after it.
C21_ViewColumnsKept ==
    (dq_run.op = "view" /\ dq_run.recreated) =>
       \A i \in DOMAIN dq_run.columns_df :
          /\ Cardinality(Entries(dq_run.column_definitions,
                                 dq_run.columns_df[i].COLUMN_NAME)) = 1
          /\ GeneratedFor(i) # NULL => objects.columns[i].comment = GeneratedFor(i)
          /\ (GeneratedFor(i) = NULL /\ NonBlank(dq_run.before[i].comment)) =>
                objects.columns[i].comment = dq_run.before[i].comment

----------------------------------------------------------------------------
(* Claims on the reported number of updates *)

\* the descriptions a run wrote to the warehouse
Written(updates) == {i \in DOMAIN updates : updates[i].ok}

\* C22: the number in 'Description generation complete! Updated N
\* descriptions.' equals the number of table, view and column descriptions
\* written to the warehouse during the call, for tables and for views, also
\* when a column description could not be generated.
C22_ReportedUpdates ==
    dq_run.op = "generate" =>
       dq_run.total_updates = Cardinality(Written(dq_run.updates))

----------------------------------------------------------------------------
(* simple_image_manager.py: the image management page in one administrator  *)
(* session.  session_state holds the selected application, the              *)
(* upload_success_<app_id> keys that are set and the file uploaders that    *)
(* hold a file; widgets holds the widgets the last run rendered.            *)

\* runs of the page that one behaviour follows
MaxPageRuns == 6

STORED_IMAGE == BASE64_PREFIX \o <<"i","V","B">>

Widget(kind, app_id) == <<kind, app_id>>

ImageOf(apps, app_id) == (CHOOSE r \in apps : r.app_id = app_id).image_path

SetImage(apps, app_id, image_path) ==
    {IF r.app_id = app_id THEN [r EXCEPT !.image_path = image_path] ELSE r : r \in apps}

\* show_current_image: the Remove button is there while an image is set; a
\* successful removal ends the run by st.rerun()
show_current_image(apps, app_id, click, remove_ok) ==
    LET has_image == Truthy(ImageOf(apps, app_id))
        clicked == has_image /\ click = Widget("remove", app_id)
    IN [shown |-> IF has_image THEN {Widget("remove", app_id)} ELSE {},
        apps |-> IF clicked /\ remove_ok THEN SetImage(apps, app_id, NULL) ELSE apps,
        rerun |-> clicked /\ remove_ok]

\* an upload interface that sets the flag whatever save_image_to_database
\* returned
file_upload_interface_any_result(flags, files, apps, app_id, click, save_ok) ==
    LET reset == Widget("reset_upload", app_id)
        upload == Widget("upload", app_id)
        save == Widget("save_upload", app_id)
        has_file == app_id \in files
        clicked == has_file /\ click = save
    IN IF app_id \in flags
       THEN [shown |-> {reset}, apps |-> apps, saved |-> "no call",
             flags |-> IF click = reset THEN flags \ {app_id} ELSE flags,
             rerun |-> click = reset]
       ELSE [shown |-> {upload} \cup (IF has_file THEN {save} ELSE {}),
             apps |-> IF clicked /\ save_ok
                      THEN SetImage(apps, app_id, STORED_IMAGE) ELSE apps,
             saved |-> IF ~clicked THEN "no call"
                       ELSE IF save_ok THEN "True" ELSE "False",
             flags |-> IF clicked THEN flags \cup {app_id} ELSE flags,
             rerun |-> clicked]

\* file_upload_interface(app_id, app_name): flags are the applications whose
\* upload_success key is set, files the uploaders holding a file, click the
\* button pressed for this run, save_ok whether the UPDATE of
\* save_image_to_database went through (it returns False when it raises)
file_upload_interface(flags, files, apps, app_id, click, save_ok) ==
    LET reset == Widget("reset_upload", app_id)
        upload == Widget("upload", app_id)
        save == Widget("save_upload", app_id)
        has_file == app_id \in files
        clicked == has_file /\ click = save
    IN IF app_id \in flags
       THEN [shown |-> {reset}, apps |-> apps, saved |-> "no call",
             flags |-> IF click = reset THEN flags \ {app_id} ELSE flags,
             rerun |-> click = reset]
       ELSE [shown |-> {upload} \cup (IF has_file THEN {save} ELSE {}),
             apps |-> IF clicked /\ save_ok
                      THEN SetImage(apps, app_id, STORED_IMAGE) ELSE apps,
             saved |-> IF ~clicked THEN "no call"
                       ELSE IF save_ok THEN "True" ELSE "False",
             flags |-> IF clicked /\ save_ok THEN flags \cup {app_id} ELSE flags,
             rerun |-> clicked /\ save_ok]

\* show_image_management for the selected application: a run ended by
\* st.rerun() in show_current_image does not reach the upload interface
show_image_management(ss, apps, click, save_ok, remove_ok) ==
    LET app_id == ss.selected
        cur == show_current_image(apps, app_id, click, remove_ok)
        up == file_upload_interface(ss.flags, ss.files, cur.apps, app_id, click, save_ok)
    IN IF cur.rerun
       THEN [shown |-> cur.shown, apps |-> cur.apps, flags |-> ss.flags,
             saved |-> "no call", rerun |-> TRUE]
       ELSE [shown |-> cur.shown \cup up.shown, apps |-> up.apps, flags |-> up.flags,
             saved |-> up.saved, rerun |-> up.rerun]

upload_unchanged == <<app_access, env, run, process_app, conn_cache, schema_cache, conn_body_runs, nav, access_seq, fetch, dq_vars>>

\* one run of the page.  The widget state of an uploader that a completed run
\* did not render is dropped; a run ended by st.rerun() is followed by
\* another run before the user can act
ImagePageRun(op, ss, click, save_ok, remove_ok) ==
    LET r == show_image_management(ss, portal_apps, click, save_ok, remove_ok)
        kept == IF r.rerun THEN ss.files
                ELSE {a \in ss.files : Widget("upload", a) \in r.shown}
    IN /\ config_run.runs < MaxPageRuns
       /\ portal_apps' = r.apps
       /\ session_state' = [selected |-> ss.selected, flags |-> r.flags, files |-> kept]
       /\ widgets' = r.shown
       /\ config_run' = [op |-> op, runs |-> config_run.runs + 1, app |-> ss.selected,
                         click |-> click, saved |-> r.saved, rerun |-> r.rerun,
                         after |-> config_run.op, after_app |-> config_run.app,
                         flags_before |-> ss.flags]
       /\ UNCHANGED upload_unchanged

NoClick == <<"none", NULL>>
UserCanAct == config_run.op # "none" /\ ~config_run.rerun

\* the first run of a session and the run that follows st.rerun()
RunAgain ==
    /\ config_run.op = "none" \/ config_run.rerun
    /\ ImagePageRun("run", session_state, NoClick, TRUE, TRUE)

\* the user picks an application in the selectbox
SelectApplication ==
    /\ UserCanAct
    /\ \E a \in AppIds :
          /\ a # session_state.selected
          /\ ImagePageRun("select", [session_state EXCEPT !.selected = a],
                          NoClick, TRUE, TRUE)

\* the user puts a file into the uploader, or takes it out
ChooseFile ==
    /\ UserCanAct
    /\ \E a \in AppIds :
          /\ Widget("upload", a) \in widgets
          /\ ImagePageRun("file",
                [session_state EXCEPT !.files =
                    IF a \in @ THEN @ \ {a} ELSE @ \cup {a}],
                NoClick, TRUE, TRUE)

\* the user presses a button the last run rendered
ClickButton ==
    /\ UserCanAct
    /\ \E w \in widgets, save_ok \in BOOLEAN, remove_ok \in BOOLEAN :
          /\ w[1] # "upload"
          /\ ImagePageRun(w[1], session_state, w, save_ok, remove_ok)

InitUpload ==
    /\ \E i1 \in {NULL, STORED_IMAGE} :
          portal_apps = {AppRow(APP1, i1, TRUE), AppRow(APP2, NULL, TRUE)}
    /\ app_access = {}
    /\ env = NoEnv
    /\ run = NoRun
    /\ process_app = "portal"
    /\ conn_cache = "empty"
    /\ schema_cache = "empty"
    /\ conn_body_runs = 0
    /\ session_state = [selected |-> APP1, flags |-> {}, files |-> {}]
    /\ widgets = {}
    /\ nav = NoNav
    /\ config_run = [op |-> "none", runs |-> 0, app |-> APP1, rerun |-> FALSE]
    /\ access_seq = NextIdentity(app_access)
    /\ fetch = NoFetch
    /\ IdleDq

NextUpload == RunAgain \/ SelectApplication \/ ChooseFile \/ ClickButton

SpecUpload == InitUpload /\ [][NextUpload]_vars

----------------------------------------------------------------------------
(* Claims on the upload success flag *)

\* C23: upload_success_<app_id> is set only by a run in which
\* save_image_to_database returned True for that application; a run that
\* finds it set renders neither the file uploader nor the Save button of the
\* application; it is cleared only by a run in which 'Upload Another Image'
\* of that application was pressed, and the run that follows renders the
\* uploader again.
C23_UploadSuccessFlag ==
    [][\A a \in AppIds :
          /\ (a \notin session_state.flags /\ a \in session_state'.flags) =>
                /\ config_run'.op = "save_upload"
                /\ config_run'.app = a
                /\ config_run'.saved = "True"
          /\ (a \in session_state.flags /\ a \notin session_state'.flags) =>
                /\ config_run'.click = Widget("reset_upload", a)
                /\ config_run'.app = a
          /\ (a \in session_state.flags /\ a \in session_state'.flags) =>
                widgets' \cap {Widget("upload", a), Widget("save_upload", a)} = {}
          /\ (config_run.op = "reset_upload" /\ config_run.app = a /\ config_run.rerun) =>
                Widget("upload", a) \in widgets'
      ]_vars

\* the flag was set, cleared by the button, and the uploader is back
C23_Witness ==
    /\ config_run.op = "run"
    /\ config_run.after = "reset_upload"
    /\ Widget("upload", config_run.app) \in widgets
    /\ Truthy(ImageOf(portal_apps, config_run.app))

----------------------------------------------------------------------------
(* portal_config.py: two administrator sessions on the same warehouse.  A   *)
(* run of a session reads the tables and issues its statements one by one;  *)
(* the statements of the two sessions interleave.  The warehouse does not   *)
(* enforce the FOREIGN KEY of app_access: an INSERT of a row whose app_id   *)
(* has no portal_apps row succeeds.                                         *)

IdleSession == [pc |-> "idle"]

concurrent_unchanged == <<env, run, process_app, conn_cache, schema_cache, conn_body_runs, widgets, nav, fetch, dq_vars>>

\* the edits of the combined view that add applications to the portal as
\* active ones, or remove them
PortalEdits(combined_df) ==
    {e \in EditedFrames(combined_df) :
        \A i \in 1..Len(combined_df) : e[i].active = e[i].in_portal}

\* Save Changes pressed in session s: the run builds the combined view from
\* the tables as they are now and works out its statements
BeginSave(s) ==
    LET combined_df == manage_applications(portal_apps)
    IN \E edited_df \in PortalEdits(combined_df) :
          LET stmts == SaveStatements(combined_df, edited_df, 1)
          IN /\ session_state[s].pc = "idle"
             /\ stmts # <<>>
             /\ session_state' = [session_state EXCEPT
                                     ![s] = [pc |-> "saving", stmts |-> stmts]]
             /\ config_run' = [op |-> "begin save", s |-> s]
             /\ UNCHANGED <<portal_apps, app_access, access_seq>>
             /\ UNCHANGED concurrent_unchanged

\* the next statement of save_application_changes in session s; a statement
\* that raises ends the handler
SaveStatement(s, fails) ==
    LET stmt == Head(session_state[s].stmts)
        rest == Tail(session_state[s].stmts)
        r == ExecStmt(stmt, [apps |-> portal_apps, access |-> app_access])
    IN /\ session_state[s].pc = "saving"
       /\ portal_apps' = IF fails THEN portal_apps ELSE r.apps
       /\ app_access' = IF fails THEN app_access ELSE r.access
       /\ session_state' = [session_state EXCEPT
                               ![s] = IF fails \/ rest = <<>> THEN IdleSession
                                      ELSE [pc |-> "saving", stmts |-> rest]]
       /\ config_run' = [op |-> stmt.op, s |-> s, app_id |-> stmt.app_id,
                         raised |-> fails]
       /\ UNCHANGED access_seq
       /\ UNCHANGED concurrent_unchanged

\* Add User Access or Add Role Access pressed in session s: the run reads
\* portal_apps, takes app_id from the selected row, reads the access rows,
\* the users and the roles, and reaches the button
BeginAdd(s) ==
    \E app_id \in SelectedApps(portal_apps) :
       \E choice \in ({"USER"} \X AllUsers) \cup ({"ROLE"} \X AllRoles) :
          /\ session_state[s].pc = "idle"
          /\ access_seq <= MaxAccessId
          /\ session_state' = [session_state EXCEPT
                                  ![s] = [pc |-> "adding", app_id |-> app_id,
                                          access_type |-> choice[1],
                                          access_value |-> Upper(choice[2])]]
          /\ config_run' = [op |-> "begin add", s |-> s, app_id |-> app_id]
          /\ UNCHANGED <<portal_apps, app_access, access_seq>>
          /\ UNCHANGED concurrent_unchanged

\* the INSERT of add_access_permission in session s
AddStatement(s, fails) ==
    LET p == session_state[s]
        r == add_access_permission(app_access, access_seq, p.app_id,
                                   p.access_type, p.access_value, fails)
    IN /\ session_state[s].pc = "adding"
       /\ app_access' = r.access
       /\ access_seq' = r.seq
       /\ session_state' = [session_state EXCEPT ![s] = IdleSession]
       /\ config_run' = [op |-> "INSERT_ACCESS", s |-> s, app_id |-> p.app_id,
                         raised |-> r.raised]
       /\ UNCHANGED portal_apps
       /\ UNCHANGED concurrent_unchanged

InitConcurrent ==
    /\ \E present \in SUBSET AppIds :
          portal_apps = {AppRow(id, NULL, TRUE) : id \in present}
    /\ app_access = {}
    /\ env = [app_info |-> <<NULL, NULL>>, resize_raises |-> FALSE]
    /\ run = NoRun
    /\ process_app = "portal"
    /\ conn_cache = "empty"
    /\ schema_cache = "empty"
    /\ conn_body_runs = 0
    /\ session_state = [s \in Sessions |-> IdleSession]
    /\ widgets = [s \in Sessions |-> {}]
    /\ nav = NoNav
    /\ IdleConfig
    /\ IdleDq

SessionStep(s) ==
    \/ BeginSave(s)
    \/ \E fails \in BOOLEAN : SaveStatement(s, fails)
    \/ BeginAdd(s)
    \/ \E fails \in BOOLEAN : AddStatement(s, fails)

NextConcurrent == \E s \in Sessions : SessionStep(s)

SpecConcurrent == InitConcurrent /\ [][NextConcurrent]_vars

----------------------------------------------------------------------------
(* Claims on the two tables under two sessions *)

\* C24: every app_access row refers to an existing portal_apps row in every
\* reachable state, also when one session removes an application while the
\* run of another session adds a grant for it.
C24_AccessRefersToApp ==
    \A a \in app_access : \E q \in portal_apps : q.app_id = a.app_id

----------------------------------------------------------------------------
(* streamlit_app.py: get_schemas and its st.cache_data entry per database   *)

SALES == <<"S","A","L","E","S">>

\* rows of INFORMATION_SCHEMA.SCHEMATA WHERE SCHEMA_NAME NOT IN
\* ('INFORMATION_SCHEMA')
SchemataRows == {<<>>, <<PUBLIC>>, <<PUBLIC, SALES>>}
\* names SHOW SCHEMAS IN DATABASE lists
ShowSchemasRows == {<<>>, <<INFORMATION_SCHEMA>>, <<INFORMATION_SCHEMA, PUBLIC>>}

NotInformationSchema(schema) == schema # INFORMATION_SCHEMA

AList(v) == [kind |-> "list", val |-> v]
None == [kind |-> "None", val |-> <<>>]

\* the body of get_schemas: the INFORMATION_SCHEMA query, 'if schemas: return
\* schemas', the SHOW SCHEMAS fallback in the except block; a call that
\* leaves the try block without returning reaches the end of the function
get_schemas(info_q, show_q) ==
    IF ~info_q.exc
    THEN IF info_q.val # <<>> THEN AList(info_q.val) ELSE None
    ELSE IF ~show_q.exc
         THEN AList(SelectSeq(show_q.val, NotInformationSchema))
         ELSE AList(<<>>)

\* a query the call did not execute
NotExecuted == [exc |-> FALSE, val |-> <<>>, executed |-> FALSE]

\* options=[""] + schemas in the callers: TypeError for None
SchemaOptions(schemas) ==
    IF schemas.kind = "list" THEN Ok(<<<<>>>> \o schemas.val) ELSE Raise

schemas_unchanged == <<db_vars, nav_vars, config_run, access_seq, timer, objects, history, quality_results, dq_run, selection>>

\* a call get_schemas(conn, database_name) of a page: the cached value of the
\* database, or the body and its result stored
CallGetSchemas ==
    \E database_name \in {"DB1", "DB2"} :
       \E info_q \in Outcomes(SchemataRows) :
          \E show_q \in (IF info_q.exc THEN Outcomes(ShowSchemasRows) ELSE {Raise}) :
             LET hit == dq_cache[database_name].filled
                 r == IF hit THEN dq_cache[database_name].data
                      ELSE get_schemas(info_q, show_q)
             IN /\ dq_cache' = [dq_cache EXCEPT
                                   ![database_name] = [filled |-> TRUE, data |-> r]]
                /\ fetch' = [done |-> TRUE, op |-> "get_schemas",
                             database_name |-> database_name, hit |-> hit,
                             info_q |-> IF hit THEN NotExecuted ELSE info_q,
                             show_q |-> IF hit \/ ~info_q.exc THEN NotExecuted
                                        ELSE show_q,
                             result |-> r, options |-> SchemaOptions(r)]
                /\ UNCHANGED schemas_unchanged

\* st.cache_data.clear(), or the entries expire
ClearSchemas ==
    /\ \E d \in DOMAIN dq_cache : dq_cache[d].filled
    /\ dq_cache' = [d \in DOMAIN dq_cache |-> NoCache]
    /\ UNCHANGED fetch
    /\ UNCHANGED schemas_unchanged

InitSchemas ==
    /\ portal_apps = {}
    /\ app_access = {}
    /\ env = NoEnv
    /\ run = NoRun
    /\ IdleNav
    /\ IdleConfig
    /\ timer = NoTimer
    /\ objects = <<>>
    /\ dq_cache = [d \in {"DB1", "DB2"} |-> NoCache]
    /\ history = <<>>
    /\ quality_results = <<>>
    /\ dq_run = NoDqRun
    /\ selection = NoSelection

NextSchemas == CallGetSchemas \/ ClearSchemas

SpecSchemas == InitSchemas /\ [][NextSchemas]_vars

----------------------------------------------------------------------------
(* Claims on get_schemas *)

\* C25: get_schemas returns a list in every outcome: the schema names when
\* the INFORMATION_SCHEMA query yields rows, the SHOW SCHEMAS result without
\* INFORMATION_SCHEMA when that query raises, and the empty list when the
\* query succeeds with no rows or when both attempts fail; it never returns
\* None, and the callers can build the selector options from it.
C25_SchemasIsList ==
    (fetch.done /\ fetch.op = "get_schemas") =>
       /\ fetch.result.kind = "list"
       /\ ~fetch.options.exc
       /\ ~fetch.hit =>
             fetch.result.val =
                (IF ~fetch.info_q.exc THEN fetch.info_q.val
                 ELSE IF ~fetch.show_q.exc
                      THEN SelectSeq(fetch.show_q.val, NotInformationSchema)
                      ELSE <<>>)

====
